---------------------------- MODULE Spec2Model ----------------------------
(***************************************************************************)
(* Model of the detection pipeline of Fredalizer:                          *)
(*   processDetections    src/hooks/useVisionEngine.ts  (TemporalAggregator)*)
(*   calculateKeepRanges  src/unnamed/part_000          (RangeComplementer) *)
(*   scanFrame            src/unnamed/part_002          (FrameScanner)      *)
(*                                                                         *)
(* Times are seconds in the source.  Every time constant of the source     *)
(* (0.05, 0.1, 0.5) is a multiple of 0.05 s, so times are modelled as      *)
(* integers counting ticks of 0.05 s: 1.0 s = 20 ticks.  Arithmetic on     *)
(* ticks is exact; the rounding of IEEE doubles is not modelled.           *)
(***************************************************************************)
EXTENDS Integers, Sequences, FiniteSets, TLC

VARIABLES
    \* processDetections
    pdPhase,        \* "input" | "ranged" | "refed"
    timestamps,     \* the argument of processDetections
    ranges,         \* its result
    reRanges,       \* its result on the endpoints of `ranges`
    \* calculateKeepRanges
    krPhase,        \* "input" | "done"
    detections,     \* argument: list of DetectionRange
    duration,       \* argument
    keep,           \* result
    \* scanFrame
    pc,             \* position inside scanFrame
    step,           \* inside the try block: the pixel-library call that is next
    cvLoaded,       \* typeof cv !== 'undefined'
    srcFrame,       \* the frame: size and which pixels fall in which colour bounds
    profile,        \* VisionProfile.spatial.normalizedBox, as exact fractions
    failAt,         \* the pixel-library call that threw in this run (0: none)
    exc,            \* an exception is in flight
    roi,            \* the clamped rectangle x, y, w, h
    live,           \* pixel buffers allocated and not yet deleted
    darkPixels,     \* cv.countNonZero(maskDark)
    whitePixels,    \* cv.countNonZero(maskWhite)
    detected,       \* the local `detected`
    returned,       \* what the caller got: "none" | "true" | "false" | "raised"
    handed,         \* the cv.Rect given to srcFrame.roi, or NoRect
    \* calibrateReference
    calPc,          \* position inside calibrateReference
    calStep,        \* the allocation or pixel-library call that is next
    calCv,          \* typeof cv !== 'undefined'
    image,          \* the reference image: size and its bright regions
    calI,           \* the loop variable i over the contours
    maxArea,        \* the local `maxArea`
    bestRect,       \* the local `bestRect`, NoRect for null
    spatial,        \* the local `spatial`
    calExc,         \* an exception is in flight
    calFailAt,      \* the allocation or pixel-library call that threw ("none": none)
    calLive,        \* the five buffers allocated and not yet deleted
    calCnts,        \* contours.get(i) handles obtained and not deleted
    calOutcome,     \* what the caller got: "none" | "profile" | "raised"
    \* App: the queue and processQueue
    queue,              \* the state `queue`: list of QueueItem
    nextId,             \* the id the next added item gets
    isBatchProcessing,  \* the state `isBatchProcessing`
    pqPc,               \* position of processQueue: "idle" | "loop" | "awaitVision" | "delay"
    pqQueue,            \* the `queue` the running processQueue closed over
    pqIdx,              \* position of the for loop in itemIds
    \* useVisionEngine: one processVideo call per id
    engCv,                  \* typeof cv !== 'undefined'
    unmounted,              \* the effect cleanup has run
    pvPc,                   \* per call: "idle" | "awaitImage" | "awaitMeta" | "scanning"
                            \*           | "resolved" | "rejected"
    aborted,                \* per call: signal.aborted
    cancelled,              \* per call: the signal was raised while the call was running
    failure,                \* per call: what failed: "none" | "cv" | "image" | "calibration"
                            \*           | "ctx" | "video"
    result,                 \* per call: the value its promise resolved with
    abortControllerRef,     \* the call whose controller the ref holds, 0 for null
    rawDetectionsRef,       \* rawDetectionsRef.current
    lastProcessedTimeRef,   \* lastProcessedTimeRef.current, in ticks
    video,                  \* the video element: source, playback state, handlers, callbacks
    seen,                   \* frames handed to a running processFrame since video.src was set
    \* processFrame: the frame loop of one processVideo call
    flPc,               \* "waiting" | "yielded" | "stopped" | "resolved" | "completed"
    frameStep,          \* the spacing of the video's frames, in ticks
    nextFrame,          \* media time of the frame the element presents next
    flLast,             \* lastProcessedTimeRef.current
    flRaw,              \* rawDetectionsRef.current
    flSeen,             \* the frames handed to processFrame, in order
    uiUpdateCounter,    \* the local `uiUpdateCounter`
    progressUpdates,    \* how often progress was set and control yielded
    flResult,           \* the ranges processVideo resolved with
    flKeep,             \* the item's resultRanges
    \* the batch render script
    script,             \* which of the two scripts runs
    rsQueue,            \* the `queue` loaded from the manifest
    index,              \* the argument of the processNext call, counted from 1
    rsPc,               \* "call" | "exec" | "finished" | "crashed"
    visited,            \* the jobs processNext has read, in order
    started,            \* the jobs the transcoder was started for
    fired               \* the transcoder callbacks that have fired

pdVars == <<pdPhase, timestamps, ranges, reRanges>>
krVars == <<krPhase, detections, duration, keep>>
sfVars == <<pc, step, cvLoaded, srcFrame, profile, failAt, exc, roi, live, darkPixels,
            whitePixels, detected, returned, handed>>
calVars == <<calPc, calStep, calCv, image, calI, maxArea, bestRect, spatial, calExc,
             calFailAt, calLive, calCnts, calOutcome>>
pqVars == <<queue, nextId, isBatchProcessing, pqPc, pqQueue, pqIdx>>
hookVars == <<engCv, unmounted, pvPc, aborted, cancelled, failure, result,
              abortControllerRef, rawDetectionsRef, lastProcessedTimeRef, video, seen>>
engVars == <<pqVars, hookVars>>
flVars == <<flPc, frameStep, nextFrame, flLast, flRaw, flSeen, uiUpdateCounter,
            progressUpdates, flResult, flKeep>>
rsVars == <<script, rsQueue, index, rsPc, visited, started, fired>>
vars == <<pdVars, krVars, sfVars, calVars, engVars, flVars, rsVars>>

----------------------------------------------------------------------------
(* Bounds of the model *)

\* longest timestamp list given to processDetections
MaxStamps == 3
\* largest timestamp, in ticks (12 ticks = 0.6 s: gaps on both sides of 0.5 s)
MaxStamp == 12
\* longest detection list given to calculateKeepRanges
MaxDets == 2
\* largest detection endpoint, in ticks
MaxDetTime == 6
\* largest duration, in ticks
MaxDuration == 8
\* the normalized box is given in fractions k / NormDen
NormDen == 4
\* widest run of pixels of a frame that lie within the text colour bounds
MaxWhite == 2
\* most bright regions of a reference image
MaxRegions == 2
\* largest area of a bright region, in pixels
MaxArea == 2
\* most videos ever added to the queue; also the number of processVideo calls
MaxItems == 2
\* largest media time of a decoded frame, in ticks
MaxMediaTime == 2
\* jobs in the manifest of the render script
MaxJobs == 3

SeqsUpTo(S, n) == UNION {[1..k -> S] : k \in 0..n}

Max(a, b) == IF a >= b THEN a ELSE b
Min(a, b) == IF a <= b THEN a ELSE b

----------------------------------------------------------------------------
(* processDetections: src/hooks/useVisionEngine.ts 21-42 *)

\* const TOLERANCE = 0.5
TOLERANCE == 10

\* the example of the specification: timestamps [1.0, 1.2, 1.6, 5.0]
ExampleTimestamps == <<20, 24, 32, 100>>

RECURSIVE InsertStamp(_, _)
\* x put into the ascending sequence s, behind the elements not greater than it
InsertStamp(s, x) ==
    IF s = <<>> THEN <<x>>
    ELSE IF x < Head(s) THEN <<x>> \o s
    ELSE <<Head(s)>> \o InsertStamp(Tail(s), x)

RECURSIVE SortStamps(_)
\* Array.prototype.sort with the comparator (a, b) => a - b: ascending
SortStamps(s) ==
    IF s = <<>> THEN <<>>
    ELSE InsertStamp(SortStamps(SubSeq(s, 1, Len(s) - 1)), s[Len(s)])

\* a plausible slip: the list is used in arrival order
SortedStamps_unsorted(ts) == ts
\* const sorted = [...timestamps].sort((a, b) => a - b)
SortedStamps(ts) == SortStamps(ts)

\* a plausible slip: >= for >
StartsNewRange_ge(prev, curr) == curr - prev >= TOLERANCE
\* if (curr - prev > TOLERANCE)
StartsNewRange(prev, curr) == curr - prev > TOLERANCE

DetectionRange(s, e) == [start |-> s, end |-> e, confidence |-> 1]

RECURSIVE AggregateLoop(_, _, _, _, _)
\* the for loop over sorted[1..], then the final push
AggregateLoop(sorted, i, start, prev, acc) ==
    IF i > Len(sorted) THEN Append(acc, DetectionRange(start, prev))
    ELSE LET curr == sorted[i] IN
         IF StartsNewRange(prev, curr)
         THEN AggregateLoop(sorted, i + 1, curr, curr,
                            Append(acc, DetectionRange(start, prev)))
         ELSE AggregateLoop(sorted, i + 1, start, curr, acc)

processDetections(ts) ==
    IF Len(ts) = 0 THEN <<>>
    ELSE LET sorted == SortedStamps(ts) IN
         AggregateLoop(sorted, 2, sorted[1], sorted[1], <<>>)

RECURSIVE Endpoints(_)
\* the start and end values of a list of ranges, in order
Endpoints(rs) ==
    IF rs = <<>> THEN <<>>
    ELSE <<Head(rs).start, Head(rs).end>> \o Endpoints(Tail(rs))

PDIdle ==
    /\ pdPhase = "idle"
    /\ timestamps = <<>>
    /\ ranges = <<>>
    /\ reRanges = <<>>

KRIdle ==
    /\ krPhase = "idle"
    /\ detections = <<>>
    /\ duration = 0
    /\ keep = <<>>

NoRect == [x |-> 0, y |-> 0, w |-> 0, h |-> 0]

SFIdle ==
    /\ pc = "idle"
    /\ step = 0
    /\ cvLoaded = TRUE
    /\ srcFrame = [cols |-> 0, rows |-> 0, dark |-> NoRect, white |-> NoRect]
    /\ profile = NoRect
    /\ failAt = 0
    /\ exc = FALSE
    /\ roi = NoRect
    /\ live = {}
    /\ darkPixels = 0
    /\ whitePixels = 0
    /\ detected = FALSE
    /\ returned = "none"
    /\ handed = NoRect

\* a fraction n / d, kept exact
Frac(n, d) == <<n, d>>

\* render.js 197-200: the value `spatial` starts with
Placeholder ==
    [normalizedBox |-> [x |-> Frac(0, 1), y |-> Frac(0, 1), w |-> Frac(0, 1),
                        h |-> Frac(0, 1)],
     aspectRatio |-> Frac(0, 1)]

CalIdle ==
    /\ calPc = "idle"
    /\ calStep = 0
    /\ calCv = TRUE
    /\ image = [cols |-> 0, rows |-> 0, regions |-> <<>>]
    /\ calI = 0
    /\ maxArea = 0
    /\ bestRect = NoRect
    /\ spatial = Placeholder
    /\ calExc = FALSE
    /\ calFailAt = "none"
    /\ calLive = {}
    /\ calCnts = {}
    /\ calOutcome = "none"

\* the ids of the processVideo calls: the call for an item has the item's id
Calls == 1..MaxItems

\* useVisionEngine.ts 59-79: the video element the effect creates
FreshVideo ==
    [src |-> 0, st |-> "empty", t |-> -1, onloadedmetadata |-> 0, onended |-> 0,
     onerror |-> 0, callbacks |-> <<>>]

\* the application after the first render: empty queue, hook mounted
EngStart ==
    /\ queue = <<>>
    /\ nextId = 1
    /\ isBatchProcessing = FALSE
    /\ pqPc = "idle"
    /\ pqQueue = <<>>
    /\ pqIdx = 0
    /\ unmounted = FALSE
    /\ pvPc = [c \in Calls |-> "idle"]
    /\ aborted = [c \in Calls |-> FALSE]
    /\ cancelled = [c \in Calls |-> FALSE]
    /\ failure = [c \in Calls |-> "none"]
    /\ result = [c \in Calls |-> <<>>]
    /\ abortControllerRef = 0
    /\ rawDetectionsRef = <<>>
    /\ lastProcessedTimeRef = -20
    /\ video = FreshVideo
    /\ seen = <<>>

EngIdle ==
    /\ EngStart
    /\ engCv = TRUE

FLIdle ==
    /\ flPc = "idle"
    /\ frameStep = 1
    /\ nextFrame = 0
    /\ flLast = -20
    /\ flRaw = <<>>
    /\ flSeen = <<>>
    /\ uiUpdateCounter = 0
    /\ progressUpdates = 0
    /\ flResult = <<>>
    /\ flKeep = <<>>

RSIdle ==
    /\ script = "none"
    /\ rsQueue = <<>>
    /\ index = 1
    /\ rsPc = "idle"
    /\ visited = <<>>
    /\ started = <<>>
    /\ fired = <<>>

StampInputs == SeqsUpTo(0..MaxStamp, MaxStamps) \cup {ExampleTimestamps}

InitPD ==
    /\ pdPhase = "input"
    /\ timestamps \in StampInputs
    /\ ranges = <<>>
    /\ reRanges = <<>>
    /\ KRIdle
    /\ SFIdle
    /\ CalIdle
    /\ EngIdle
    /\ FLIdle
    /\ RSIdle

\* one call processDetections(timestamps)
Aggregate ==
    /\ pdPhase = "input"
    /\ ranges' = processDetections(timestamps)
    /\ pdPhase' = "ranged"
    /\ UNCHANGED <<timestamps, reRanges, krVars, sfVars, calVars, engVars, flVars, rsVars>>

\* a second call, on the start and end values of the first call's result
Reaggregate ==
    /\ pdPhase = "ranged"
    /\ reRanges' = processDetections(Endpoints(ranges))
    /\ pdPhase' = "refed"
    /\ UNCHANGED <<timestamps, ranges, krVars, sfVars, calVars, engVars, flVars, rsVars>>

NextPD == Aggregate \/ Reaggregate

SpecPD == InitPD /\ [][NextPD]_vars

----------------------------------------------------------------------------
(* calculateKeepRanges: src/unnamed/part_000 124-146 *)

\* const FRAME_MARGIN = 0.05
FRAME_MARGIN == 1

\* the example of the specification: detections [{3,4}] (with duration 10)
ExampleDetections == <<DetectionRange(60, 80)>>

RECURSIVE InsertByStart(_, _)
\* d put into s (ascending by start) behind the elements whose start is not
\* greater than its own: elements with equal start keep their order
InsertByStart(s, d) ==
    IF s = <<>> THEN <<d>>
    ELSE IF d.start < Head(s).start THEN <<d>> \o s
    ELSE <<Head(s)>> \o InsertByStart(Tail(s), d)

RECURSIVE SortByStart(_)
\* const sorted = [...detections].sort((a, b) => a.start - b.start)
\* (Array.prototype.sort is stable)
SortByStart(s) ==
    IF s = <<>> THEN <<>>
    ELSE InsertByStart(SortByStart(SubSeq(s, 1, Len(s) - 1)), s[Len(s)])

\* a plausible slip: the margin forgotten
SafeEnd_nomargin(det) == Max(0, det.start)
\* a plausible slip: the margin added instead of subtracted
SafeEnd_plus(det) == Max(0, det.start + FRAME_MARGIN)
\* const safeEnd = Math.max(0, det.start - FRAME_MARGIN)
SafeEnd(det) == Max(0, det.start - FRAME_MARGIN)

\* a plausible slip: >= for >
EmitsKeep_ge(safeEnd, currentCursor) == safeEnd >= currentCursor + 2
\* if (safeEnd > currentCursor + 0.1)
EmitsKeep(safeEnd, currentCursor) == safeEnd > currentCursor + 2

\* a plausible slip: the cursor set without Math.max
NextCursor_nomax(currentCursor, det, dur) == Min(dur, det.end + FRAME_MARGIN)

\* a plausible slip: the list used in the given order
SortedByStart_unsorted(dets) == dets

\* const sorted = [...detections].sort((a, b) => a.start - b.start)
SortedByStart(dets) == SortByStart(dets)

\* currentCursor = Math.max(currentCursor, Math.min(duration, det.end + FRAME_MARGIN))
NextCursor(currentCursor, det, dur) ==
    Max(currentCursor, Min(dur, det.end + FRAME_MARGIN))

\* a plausible slip: the segment behind the last detection forgotten
EmitsTail_never(currentCursor, dur) == FALSE
\* if (currentCursor < duration - 0.1)
EmitsTail(currentCursor, dur) == currentCursor < dur - 2

Range(s, e) == [start |-> s, end |-> e]

RECURSIVE KeepLoop(_, _, _, _, _)
\* sorted.forEach(det => ...), then the segment behind the last detection
KeepLoop(sorted, i, currentCursor, dur, acc) ==
    IF i > Len(sorted)
    THEN IF EmitsTail(currentCursor, dur)
         THEN Append(acc, Range(currentCursor, dur))
         ELSE acc
    ELSE LET det == sorted[i]
             safeEnd == SafeEnd(det)
         IN  KeepLoop(sorted, i + 1, NextCursor(currentCursor, det, dur), dur,
                      IF EmitsKeep(safeEnd, currentCursor)
                      THEN Append(acc, Range(currentCursor, safeEnd))
                      ELSE acc)

\* a plausible slip: the two early returns in the other order
calculateKeepRanges_swapped(dets, dur) ==
    IF Len(dets) = 0 THEN <<Range(0, dur)>>
    ELSE IF dur = 0 THEN <<>>
    ELSE KeepLoop(SortedByStart(dets), 1, 0, dur, <<>>)
calculateKeepRanges(dets, dur) ==
    IF dur = 0 THEN <<>>
    ELSE IF Len(dets) = 0 THEN <<Range(0, dur)>>
    ELSE KeepLoop(SortedByStart(dets), 1, 0, dur, <<>>)

\* the detection ranges of the inputs: 0 <= start <= end, as processDetections
\* builds them
DetRanges ==
    {DetectionRange(s, e) : <<s, e>> \in
        {p \in (0..MaxDetTime) \X (0..MaxDetTime) : p[1] <= p[2]}}

KeepInputs ==
    (SeqsUpTo(DetRanges, MaxDets) \X (0..MaxDuration))
        \cup {<<ExampleDetections, 200>>}

InitKR ==
    /\ krPhase = "input"
    /\ \E inp \in KeepInputs : detections = inp[1] /\ duration = inp[2]
    /\ keep = <<>>
    /\ PDIdle
    /\ SFIdle
    /\ CalIdle
    /\ EngIdle
    /\ FLIdle
    /\ RSIdle

\* one call calculateKeepRanges(detections, duration)
Complement ==
    /\ krPhase = "input"
    /\ keep' = calculateKeepRanges(detections, duration)
    /\ krPhase' = "done"
    /\ UNCHANGED <<detections, duration, pdVars, sfVars, calVars, engVars, flVars, rsVars>>

NextKR == Complement

SpecKR == InitKR /\ [][NextKR]_vars

----------------------------------------------------------------------------
(* scanFrame: src/unnamed/part_002 17-119 *)
(* A frame is its size and two rectangles: the pixels whose HSV value lies  *)
(* within profile.bounds.dark, and those within profile.bounds.white.  The  *)
(* normalized box holds the numerators of x, y, w, h over NormDen.          *)

\* the pixel-library calls of the try block, in order (lines 58-88)
CvCalls ==
    <<"Rect", "roi", "Mat", "cvtColor", "cvtColor",
      "Mat", "Mat", "Mat", "inRange", "countNonZero",
      "Mat", "Mat", "Mat", "inRange", "countNonZero">>

\* the local each call's result is assigned to, when it is a pixel buffer
Allocates ==
    <<"", "roiMat", "hsvRoi", "", "",
      "lowP", "highP", "maskDark", "", "",
      "lowW", "highW", "maskWhite", "", "">>

\* a plausible slip: the width and height are clamped against the corner as
\* it was before lines 50-51 moved it into the frame
ClampedRoi_rawcorner(frame, nb) ==
    LET fw == frame.cols
        fh == frame.rows
        x0 == ((40 * nb.x - nb.w) * fw) \div (40 * NormDen)
        y0 == ((40 * nb.y - nb.h) * fh) \div (40 * NormDen)
        w0 == (21 * nb.w * fw) \div (20 * NormDen)
        h0 == (21 * nb.h * fh) \div (20 * NormDen)
        x == IF x0 < 0 THEN 0 ELSE x0
        y == IF y0 < 0 THEN 0 ELSE y0
        w == IF x0 + w0 > fw THEN fw - x0 ELSE w0
        h == IF y0 + h0 > fh THEN fh - y0 ELSE h0
    IN  [x |-> x, y |-> y, w |-> w, h |-> h]
\* lines 35-53: the padded region of interest, floored and clamped to the frame
ClampedRoi(frame, nb) ==
    LET fw == frame.cols
        fh == frame.rows
        \* Math.floor((nb.x - padW / 2) * fw), padW = nb.w * 0.05
        x0 == ((40 * nb.x - nb.w) * fw) \div (40 * NormDen)
        y0 == ((40 * nb.y - nb.h) * fh) \div (40 * NormDen)
        \* Math.floor((nb.w + padW) * fw)
        w0 == (21 * nb.w * fw) \div (20 * NormDen)
        h0 == (21 * nb.h * fh) \div (20 * NormDen)
        x == IF x0 < 0 THEN 0 ELSE x0
        y == IF y0 < 0 THEN 0 ELSE y0
        w == IF x + w0 > fw THEN fw - x ELSE w0
        h == IF y + h0 > fh THEN fh - y ELSE h0
    IN  [x |-> x, y |-> y, w |-> w, h |-> h]

\* length of the overlap of [a, a + alen) and [b, b + blen)
Overlap(a, alen, b, blen) == Max(0, Min(a + alen, b + blen) - Max(a, b))

\* cv.inRange over the view of `region`, then cv.countNonZero: the pixels of
\* the region that lie in `inBounds`
CountInRange(region, inBounds) ==
    Overlap(region.x, region.w, inBounds.x, inBounds.w)
        * Overlap(region.y, region.h, inBounds.y, inBounds.h)

\* a plausible slip: >= for > on the background ratio
Qualifies_ge(dark, white, area) == 10 * dark >= 3 * area /\ 200 * white > area
\* if (darkRatio > 0.30 && whiteRatio > 0.005), the ratios being count / area
Qualifies(dark, white, area) == 10 * dark > 3 * area /\ 200 * white > area

FrameSizes == {<<20, 10>>, <<8, 5>>}

Frames ==
    UNION {
        {[cols |-> sz[1], rows |-> sz[2],
          dark |-> [x |-> 0, y |-> 0, w |-> dw, h |-> sz[2]],
          white |-> [x |-> (sz[1] \div 2) - 1, y |-> sz[2] \div 2, w |-> ww, h |-> 1]]
            : dw \in 0..sz[1], ww \in 0..MaxWhite}
        : sz \in FrameSizes}

\* boxes inside the unit square and boxes that leave it
Boxes ==
    {[x |-> bx, y |-> v[1], w |-> bw, h |-> v[2]] :
        bx \in 0..(NormDen + 1), bw \in 0..NormDen,
        v \in {<<0, NormDen>>, <<1, 2>>, <<2, 0>>, <<NormDen + 1, 1>>}}

InitSF ==
    /\ pc = "entry"
    /\ step = 0
    /\ cvLoaded \in BOOLEAN
    /\ srcFrame \in Frames
    /\ profile \in Boxes
    /\ failAt = 0
    /\ exc = FALSE
    /\ roi = NoRect
    /\ live = {}
    /\ darkPixels = 0
    /\ whitePixels = 0
    /\ detected = FALSE
    /\ returned = "none"
    /\ handed = NoRect
    /\ PDIdle
    /\ KRIdle
    /\ CalIdle
    /\ EngIdle
    /\ FLIdle
    /\ RSIdle

\* line 18, cv defined: go on to the try block
Enter ==
    /\ pc = "entry"
    /\ cvLoaded
    /\ pc' = "clamp"
    /\ UNCHANGED <<step, cvLoaded, srcFrame, profile, failAt, exc, roi, live,
                   darkPixels, whitePixels, detected, returned, handed>>
    /\ UNCHANGED <<pdVars, krVars, calVars, engVars, flVars, rsVars>>

\* line 18: if (typeof cv === 'undefined') return false
EnterNoCv ==
    /\ pc = "entry"
    /\ ~cvLoaded
    /\ returned' = "false"
    /\ pc' = "done"
    /\ UNCHANGED <<step, cvLoaded, srcFrame, profile, failAt, exc, roi, live,
                   darkPixels, whitePixels, detected, handed>>
    /\ UNCHANGED <<pdVars, krVars, calVars, engVars, flVars, rsVars>>

\* lines 35-56: the region of interest; if (w <= 0 || h <= 0) return false,
\* which leaves the try block through finally
Clamp ==
    /\ pc = "clamp"
    /\ roi' = ClampedRoi(srcFrame, profile)
    /\ IF roi'.w <= 0 \/ roi'.h <= 0
       THEN pc' = "finally" /\ step' = step
       ELSE pc' = "call" /\ step' = 1
    /\ UNCHANGED <<cvLoaded, srcFrame, profile, failAt, exc, live,
                   darkPixels, whitePixels, detected, returned, handed>>
    /\ UNCHANGED <<pdVars, krVars, calVars, engVars, flVars, rsVars>>

\* lines 58-88: the next pixel-library call returns
CvCall ==
    /\ pc = "call"
    /\ live' = IF Allocates[step] # "" THEN live \cup {Allocates[step]} ELSE live
    /\ handed' = IF step = 1 THEN roi ELSE handed
    /\ darkPixels' = IF step = 10 THEN CountInRange(roi, srcFrame.dark)
                     ELSE darkPixels
    /\ whitePixels' = IF step = 15 THEN CountInRange(roi, srcFrame.white)
                      ELSE whitePixels
    /\ IF step = Len(CvCalls)
       THEN pc' = "decide" /\ step' = step
       ELSE pc' = "call" /\ step' = step + 1
    /\ UNCHANGED <<cvLoaded, srcFrame, profile, failAt, exc, roi, detected,
                   returned>>
    /\ UNCHANGED <<pdVars, krVars, calVars, engVars, flVars, rsVars>>

\* lines 58-88: the next pixel-library call throws; nothing is assigned
CvThrow ==
    /\ pc = "call"
    /\ exc' = TRUE
    /\ failAt' = step
    /\ handed' = IF step = 1 THEN roi ELSE handed
    /\ pc' = "catch"
    /\ UNCHANGED <<step, cvLoaded, srcFrame, profile, roi, live, darkPixels,
                   whitePixels, detected, returned>>
    /\ UNCHANGED <<pdVars, krVars, calVars, engVars, flVars, rsVars>>

\* lines 97-99: the threshold decision
Decide ==
    /\ pc = "decide"
    /\ detected' = Qualifies(darkPixels, whitePixels, roi.w * roi.h)
    /\ pc' = "finally"
    /\ UNCHANGED <<step, cvLoaded, srcFrame, profile, failAt, exc, roi, live,
                   darkPixels, whitePixels, returned, handed>>
    /\ UNCHANGED <<pdVars, krVars, calVars, engVars, flVars, rsVars>>

\* a plausible slip: the catch block logs and throws the error again
Catch_rethrow ==
    /\ pc = "catch"
    /\ pc' = "finally"
    /\ UNCHANGED <<step, cvLoaded, srcFrame, profile, failAt, exc, roi, live,
                   darkPixels, whitePixels, detected, returned, handed>>
    /\ UNCHANGED <<pdVars, krVars, calVars, engVars, flVars, rsVars>>
\* lines 101-102: catch (err) { console.error(...) }: the error ends here
Catch ==
    /\ pc = "catch"
    /\ exc' = FALSE
    /\ pc' = "finally"
    /\ UNCHANGED <<step, cvLoaded, srcFrame, profile, failAt, roi, live,
                   darkPixels, whitePixels, detected, returned, handed>>
    /\ UNCHANGED <<pdVars, krVars, calVars, engVars, flVars, rsVars>>

\* a plausible slip: the finally block forgets the four bound matrices
Deleted_nobounds == {"roiMat", "hsvRoi", "maskDark", "maskWhite"}
\* lines 106-115: the locals the finally block deletes when they are set
Deleted ==
    {"roiMat", "hsvRoi", "maskDark", "maskWhite", "lowP", "highP", "lowW", "highW"}

\* lines 103-116: every local that holds a buffer is deleted
Finally ==
    /\ pc = "finally"
    /\ live' = live \ Deleted
    /\ pc' = "return"
    /\ UNCHANGED <<step, cvLoaded, srcFrame, profile, failAt, exc, roi,
                   darkPixels, whitePixels, detected, returned, handed>>
    /\ UNCHANGED <<pdVars, krVars, calVars, engVars, flVars, rsVars>>

\* line 118: return detected, unless an error is still in flight
Return ==
    /\ pc = "return"
    /\ returned' = IF exc THEN "raised"
                   ELSE IF detected THEN "true" ELSE "false"
    /\ pc' = "done"
    /\ UNCHANGED <<step, cvLoaded, srcFrame, profile, failAt, exc, roi, live,
                   darkPixels, whitePixels, detected, handed>>
    /\ UNCHANGED <<pdVars, krVars, calVars, engVars, flVars, rsVars>>

NextSF ==
    \/ Enter
    \/ EnterNoCv
    \/ Clamp
    \/ CvCall
    \/ CvThrow
    \/ Decide
    \/ Catch
    \/ Finally
    \/ Return

SpecSF == InitSF /\ [][NextSF]_vars

----------------------------------------------------------------------------
(* calibrateReference: src/render.js 173-267 *)
(* The reference image is its size and the list of bright regions that      *)
(* cv.findContours reports on the image thresholded at 200: for each region *)
(* the value of cv.contourArea and of cv.boundingRect.                      *)

\* render.js 191-195: the buffers allocated before the try block
CalAllocs == <<"src", "gray", "binary", "contours", "hierarchy">>

\* render.js 203-210: the pixel-library calls of the try block before the loop
CalCalls == <<"cvtColor", "threshold", "findContours">>

\* sizes of the reference images tried: 1000 and 2000 pixels, so that 0.1%
\* of the pixel count is a whole number of pixels
ImageSizes == {<<40, 25>>, <<50, 40>>}

\* bounding rectangles cv.boundingRect can give: inside the image, w, h >= 1
RegionRects(size) ==
    { [x |-> 0, y |-> 0, w |-> 1, h |-> 1],
      [x |-> size[1] - 2, y |-> size[2] - 1, w |-> 2, h |-> 1],
      [x |-> 0, y |-> 0, w |-> size[1], h |-> size[2]] }

Regions(size) ==
    { [area |-> a, rect |-> r] : a \in 0..MaxArea, r \in RegionRects(size) }

Images ==
    { [cols |-> size[1], rows |-> size[2], regions |-> rs] :
        size \in ImageSizes, rs \in UNION { SeqsUpTo(Regions(sz), MaxRegions) : sz \in ImageSizes } }

\* render.js 227: if (bestRect && maxArea > (totalPixels * 0.001))
TargetFound_ge(best, area, totalPixels) ==
    best # NoRect /\ area * 1000 >= totalPixels

TargetFound(best, area, totalPixels) ==
    best # NoRect /\ area * 1000 > totalPixels

\* render.js 232-240: the box normalized by the image size
Normalized(best, cols, rows) ==
    [normalizedBox |-> [x |-> Frac(best.x, cols), y |-> Frac(best.y, rows),
                        w |-> Frac(best.w, cols), h |-> Frac(best.h, rows)],
     aspectRatio |-> Frac(best.w, best.h)]

InitCal ==
    /\ calPc = "entry"
    /\ calStep = 0
    /\ calCv \in BOOLEAN
    /\ image \in { im \in Images :
                     \A k \in 1..Len(im.regions) :
                         im.regions[k].rect \in RegionRects(<<im.cols, im.rows>>) }
    /\ calI = 0
    /\ maxArea = 0
    /\ bestRect = NoRect
    /\ spatial = Placeholder
    /\ calExc = FALSE
    /\ calFailAt = "none"
    /\ calLive = {}
    /\ calCnts = {}
    /\ calOutcome = "none"
    /\ PDIdle
    /\ KRIdle
    /\ SFIdle
    /\ EngIdle
    /\ FLIdle
    /\ RSIdle

\* render.js 174-176, library loaded
CalEnter ==
    /\ calPc = "entry"
    /\ calCv
    /\ calPc' = "alloc"
    /\ calStep' = 1
    /\ UNCHANGED <<calCv, calFailAt, image, calI, maxArea, bestRect, spatial, calExc, calLive,
                   calCnts, calOutcome>>
    /\ UNCHANGED <<pdVars, krVars, sfVars, engVars, flVars, rsVars>>

\* render.js 174-176: throw new Error("OpenCV is not loaded yet.")
CalEnterNoCv ==
    /\ calPc = "entry"
    /\ ~calCv
    /\ calPc' = "done"
    /\ calOutcome' = "raised"
    /\ UNCHANGED <<calStep, calCv, calFailAt, image, calI, maxArea, bestRect, spatial, calExc,
                   calLive, calCnts>>
    /\ UNCHANGED <<pdVars, krVars, sfVars, engVars, flVars, rsVars>>

\* render.js 191-200: one allocation; after the fifth, `spatial` is set to
\* the placeholder and the try block is entered
CalAlloc ==
    /\ calPc = "alloc"
    /\ calLive' = calLive \cup {CalAllocs[calStep]}
    /\ IF calStep < Len(CalAllocs)
         THEN calStep' = calStep + 1 /\ calPc' = "alloc"
         ELSE calStep' = 1 /\ calPc' = "try"
    /\ spatial' = Placeholder
    /\ UNCHANGED <<calCv, calFailAt, image, calI, maxArea, bestRect, calExc, calCnts, calOutcome>>
    /\ UNCHANGED <<pdVars, krVars, sfVars, engVars, flVars, rsVars>>

\* render.js 191-195: an allocation throws; it is outside the try block, so
\* the exception leaves the function at once
CalAllocThrow ==
    /\ calPc = "alloc"
    /\ calPc' = "done"
    /\ calExc' = TRUE
    /\ calFailAt' = CalAllocs[calStep]
    /\ calOutcome' = "raised"
    /\ UNCHANGED <<calStep, calCv, image, calI, maxArea, bestRect, spatial, calLive,
                   calCnts>>
    /\ UNCHANGED <<pdVars, krVars, sfVars, engVars, flVars, rsVars>>

\* render.js 203-213: one call of the try block; after findContours the
\* loop starts with maxArea = 0, bestRect = null
CalCall ==
    /\ calPc = "try"
    /\ IF calStep < Len(CalCalls)
         THEN calStep' = calStep + 1 /\ calPc' = "try"
         ELSE calStep' = 0 /\ calPc' = "loop"
    /\ calI' = 0
    /\ maxArea' = 0
    /\ bestRect' = NoRect
    /\ UNCHANGED <<calCv, calFailAt, image, spatial, calExc, calLive, calCnts, calOutcome>>
    /\ UNCHANGED <<pdVars, krVars, sfVars, engVars, flVars, rsVars>>

\* render.js 215-222: one iteration of the loop over the contours
CalContour ==
    /\ calPc = "loop"
    /\ calI < Len(image.regions)
    /\ LET cnt == image.regions[calI + 1]
       IN  IF cnt.area > maxArea
             THEN maxArea' = cnt.area /\ bestRect' = cnt.rect
             ELSE UNCHANGED <<maxArea, bestRect>>
    /\ calCnts' = calCnts \cup {calI}
    /\ calI' = calI + 1
    /\ UNCHANGED <<calPc, calStep, calCv, calFailAt, image, spatial, calExc, calLive, calOutcome>>
    /\ UNCHANGED <<pdVars, krVars, sfVars, engVars, flVars, rsVars>>

\* render.js 203-222: a pixel-library call inside the try block throws
CalThrow ==
    /\ \/ calPc = "try"
       \/ calPc = "loop" /\ calI < Len(image.regions)
    /\ calPc' = "catch"
    /\ calExc' = TRUE
    /\ calFailAt' = IF calPc = "try" THEN CalCalls[calStep] ELSE "contour"
    /\ UNCHANGED <<calStep, calCv, image, calI, maxArea, bestRect, spatial, calLive,
                   calCnts, calOutcome>>
    /\ UNCHANGED <<pdVars, krVars, sfVars, engVars, flVars, rsVars>>

\* render.js 224-246: the test of the largest region
CalDecide ==
    /\ calPc = "loop"
    /\ calI = Len(image.regions)
    /\ IF TargetFound(bestRect, maxArea, image.cols * image.rows)
         THEN /\ spatial' = Normalized(bestRect, image.cols, image.rows)
              /\ calPc' = "finally"
              /\ UNCHANGED calExc
         ELSE /\ calExc' = TRUE
              /\ calPc' = "catch"
              /\ UNCHANGED spatial
    /\ UNCHANGED <<calStep, calCv, calFailAt, image, calI, maxArea, bestRect, calLive, calCnts,
                   calOutcome>>
    /\ UNCHANGED <<pdVars, krVars, sfVars, engVars, flVars, rsVars>>

\* a catch block that logs and does not rethrow
CalCatch_swallow ==
    /\ calPc = "catch"
    /\ calPc' = "finally"
    /\ calExc' = FALSE
    /\ UNCHANGED <<calStep, calCv, calFailAt, image, calI, maxArea, bestRect, spatial, calLive,
                   calCnts, calOutcome>>
    /\ UNCHANGED <<pdVars, krVars, sfVars, engVars, flVars, rsVars>>

\* render.js 248-250: catch (e) { console.error(...); throw e; }
CalCatch ==
    /\ calPc = "catch"
    /\ calPc' = "finally"
    /\ UNCHANGED <<calStep, calCv, calFailAt, image, calI, maxArea, bestRect, spatial, calExc,
                   calLive, calCnts, calOutcome>>
    /\ UNCHANGED <<pdVars, krVars, sfVars, engVars, flVars, rsVars>>

\* render.js 251-258: the finally block deletes the five buffers
CalFinally ==
    /\ calPc = "finally"
    /\ calLive' = calLive \ {CalAllocs[k] : k \in 1..Len(CalAllocs)}
    /\ calPc' = "return"
    /\ UNCHANGED <<calStep, calCv, calFailAt, image, calI, maxArea, bestRect, spatial, calExc,
                   calCnts, calOutcome>>
    /\ UNCHANGED <<pdVars, krVars, sfVars, engVars, flVars, rsVars>>

\* render.js 260-267: the exception in flight leaves the function, or the
\* profile is returned
CalReturn ==
    /\ calPc = "return"
    /\ calPc' = "done"
    /\ calOutcome' = IF calExc THEN "raised" ELSE "profile"
    /\ UNCHANGED <<calStep, calCv, calFailAt, image, calI, maxArea, bestRect, spatial, calExc,
                   calLive, calCnts>>
    /\ UNCHANGED <<pdVars, krVars, sfVars, engVars, flVars, rsVars>>

NextCal ==
    \/ CalEnter
    \/ CalEnterNoCv
    \/ CalAlloc
    \/ CalAllocThrow
    \/ CalCall
    \/ CalContour
    \/ CalThrow
    \/ CalDecide
    \/ CalCatch
    \/ CalFinally
    \/ CalReturn

SpecCal == InitCal /\ [][NextCal]_vars

----------------------------------------------------------------------------
(* useVisionEngine.processVideo: src/hooks/useVisionEngine.ts 44-239        *)
(* App.processQueue:             src/unnamed/part_000 85-198                *)
(* The hook owns one video element, one abort-controller ref and the two    *)
(* refs rawDetectionsRef and lastProcessedTimeRef; every processVideo call  *)
(* shares them.  A call is a coroutine that suspends at the load of the     *)
(* reference image, at the load of the video metadata and during playback. *)
(* The image, the video element and the user are the environment: their     *)
(* events are actions.  The periodic progress update of lines 196-204      *)
(* changes none of the variables below and is left out.                     *)

\* useVisionEngine.ts 161: const SAMPLE_INTERVAL = 0.1
SAMPLE_INTERVAL == 2

\* the duration getVideoDuration gives the added videos
Durations == {MaxDuration}

\* the call is suspended inside processVideo
Running(c) == pvPc[c] \in {"awaitImage", "awaitMeta", "scanning"}

\* useVisionEngine.ts 175: if (currentTime - lastProcessedTimeRef.current >= SAMPLE_INTERVAL)
Accepts_gt(currentTime, last) == currentTime - last > SAMPLE_INTERVAL

Accepts(currentTime, last) == currentTime - last >= SAMPLE_INTERVAL

\* a catch block that lets the error of a scan that was not cancelled escape
Caught_rethrow(signalAborted) == IF signalAborted THEN "resolved" ELSE "rejected"

\* useVisionEngine.ts 232-238: the catch block swallows the error and the
\* function returns []
Caught(signalAborted) == "resolved"

\* a plausible slip: a new call leaves the buffer and the last accepted time
\* of the call before it in place
StartCall_noreset(c) ==
    IF ~engCv
      THEN /\ pvPc' = [pvPc EXCEPT ![c] = "resolved"]
           /\ result' = [result EXCEPT ![c] = <<>>]
           /\ failure' = [failure EXCEPT ![c] = "cv"]
           /\ UNCHANGED <<aborted, cancelled, abortControllerRef, rawDetectionsRef,
                          lastProcessedTimeRef>>
      ELSE /\ UNCHANGED <<rawDetectionsRef, lastProcessedTimeRef>>
           /\ aborted' = [k \in Calls |->
                            IF k = c THEN FALSE
                            ELSE IF k = abortControllerRef THEN TRUE
                            ELSE aborted[k]]
           /\ cancelled' = [k \in Calls |->
                              IF k = c THEN FALSE
                              ELSE cancelled[k]
                                     \/ (k = abortControllerRef /\ ~aborted[k] /\ Running(k))]
           /\ abortControllerRef' = c
           /\ pvPc' = [pvPc EXCEPT ![c] = "awaitImage"]
           /\ result' = [result EXCEPT ![c] = <<>>]
           /\ failure' = [failure EXCEPT ![c] = "none"]
\* useVisionEngine.ts 98-118: processVideo up to its first suspension
StartCall(c) ==
    IF ~engCv
      THEN /\ pvPc' = [pvPc EXCEPT ![c] = "resolved"]
           /\ result' = [result EXCEPT ![c] = <<>>]
           /\ failure' = [failure EXCEPT ![c] = "cv"]
           /\ UNCHANGED <<aborted, cancelled, abortControllerRef, rawDetectionsRef,
                          lastProcessedTimeRef>>
      ELSE /\ rawDetectionsRef' = <<>>
           /\ lastProcessedTimeRef' = -20
           /\ aborted' = [k \in Calls |->
                            IF k = c THEN FALSE
                            ELSE IF k = abortControllerRef THEN TRUE
                            ELSE aborted[k]]
           /\ cancelled' = [k \in Calls |->
                              IF k = c THEN FALSE
                              ELSE cancelled[k]
                                     \/ (k = abortControllerRef /\ ~aborted[k] /\ Running(k))]
           /\ abortControllerRef' = c
           /\ pvPc' = [pvPc EXCEPT ![c] = "awaitImage"]
           /\ result' = [result EXCEPT ![c] = <<>>]
           /\ failure' = [failure EXCEPT ![c] = "none"]

\* the call's promise settles with the empty list
ReturnEmpty(c, how, what) ==
    /\ pvPc' = [pvPc EXCEPT ![c] = how]
    /\ result' = [result EXCEPT ![c] = <<>>]
    /\ failure' = [failure EXCEPT ![c] = what]

\* useVisionEngine.ts 232-238: an error reaches the catch block of call c
Fail(c, what) == ReturnEmpty(c, Caught(aborted[c]), what)

\* a frame callback that does not look at the signal
SignalAborted_ignored(flag) == FALSE

\* useVisionEngine.ts 165: if (signal.aborted)
SignalAborted(flag) == flag

\* useVisionEngine.ts 164-212: processFrame of call k on a frame with media
\* time t; S holds the element's playback state, the two refs, the callbacks
\* requested so far for the next frame and the log of frames
ProcessFrame(S, k, t, outcome) ==
    IF SignalAborted(aborted[k])
      THEN [S EXCEPT !.st = "paused"]
      ELSE LET accepted == Accepts(t, S.last)
               S1 == [S EXCEPT
                        !.last = IF accepted THEN t ELSE @,
                        !.raw = IF accepted /\ outcome = "hit" THEN Append(@, t) ELSE @,
                        !.seen = Append(@, [t |-> t, by |-> k, accepted |-> accepted])]
           IN  IF accepted /\ outcome = "throw" THEN S1
               ELSE IF S1.st = "playing" THEN [S1 EXCEPT !.cbs = Append(@, k)]
               ELSE S1

RECURSIVE RunCallbacks(_, _, _, _)
\* the element runs the callbacks requested for this frame, in request order
RunCallbacks(cbs, S, t, outcome) ==
    IF cbs = <<>> THEN S
    ELSE RunCallbacks(Tail(cbs), ProcessFrame(S, Head(cbs), t, outcome), t, outcome)

\* part_000 161-163
MarkProcessing(q, id) ==
    [k \in 1..Len(q) |->
        IF q[k].id = id THEN [q[k] EXCEPT !.status = "PROCESSING"] ELSE q[k]]

\* part_000 169-177
MarkCompleted(q, id, dets, rngs) ==
    [k \in 1..Len(q) |->
        IF q[k].id = id
          THEN [q[k] EXCEPT !.status = "COMPLETED", !.detections = dets,
                            !.resultRanges = rngs]
          ELSE q[k]]

\* part_000 186-188
MarkError(q, id) ==
    [k \in 1..Len(q) |->
        IF q[k].id = id THEN [q[k] EXCEPT !.status = "ERROR"] ELSE q[k]]

\* the loop visits every item, completed ones too
Skips_never(currentItem) == FALSE

\* part_000 157: if (... currentItem.status === ProcessingStatus.COMPLETED) continue
Skips(currentItem) == currentItem.status = "COMPLETED"

\* the ids taken last to first
ItemIds_reversed(q) == [k \in 1..Len(q) |-> q[Len(q) + 1 - k].id]

\* part_000 152: const itemIds = queue.map(i => i.id)
ItemIds(q) == [k \in 1..Len(q) |-> q[k].id]

\* part_000 155: queue.find(i => i.id === id), on the queue closed over
Find(q, id) == q[CHOOSE k \in 1..Len(q) : q[k].id = id]

InitEng ==
    /\ EngStart
    /\ engCv \in BOOLEAN
    /\ PDIdle
    /\ KRIdle
    /\ SFIdle
    /\ CalIdle
    /\ FLIdle
    /\ RSIdle

\* part_000 85-107: handleFilesSelected, for one file
AddItem ==
    /\ ~unmounted
    /\ nextId <= MaxItems
    /\ \E d \in Durations :
         queue' = Append(queue, [id |-> nextId, duration |-> d, status |-> "PENDING",
                                 detections |-> <<>>, resultRanges |-> <<>>])
    /\ nextId' = nextId + 1
    /\ UNCHANGED <<isBatchProcessing, pqPc, pqQueue, pqIdx, hookVars>>
    /\ UNCHANGED <<pdVars, krVars, sfVars, calVars, flVars, rsVars>>

\* part_000 113-119: handleRemoveItem; its button is disabled during a batch
\* (350).  What the settled call of the removed item returned is dropped
\* with the item.
RemoveItem ==
    /\ ~unmounted
    /\ ~isBatchProcessing
    /\ \E i \in 1..Len(queue) :
         /\ queue' = [k \in 1..(Len(queue) - 1) |->
                         IF k < i THEN queue[k] ELSE queue[k + 1]]
         /\ result' = [result EXCEPT ![queue[i].id] = <<>>]
         /\ failure' = [failure EXCEPT ![queue[i].id] = "none"]
         /\ cancelled' = [cancelled EXCEPT ![queue[i].id] = FALSE]
    /\ UNCHANGED <<nextId, isBatchProcessing, pqPc, pqQueue, pqIdx>>
    /\ UNCHANGED <<engCv, unmounted, pvPc, aborted, abortControllerRef, rawDetectionsRef,
                   lastProcessedTimeRef, video, seen>>
    /\ UNCHANGED <<pdVars, krVars, sfVars, calVars, flVars, rsVars>>

\* part_000 148-152: the Run button (disabled while a batch runs or the queue
\* is empty, 273) calls processQueue
RunBatch ==
    /\ ~unmounted
    /\ ~isBatchProcessing
    /\ queue # <<>>
    /\ pqPc = "idle"
    /\ isBatchProcessing' = TRUE
    /\ pqQueue' = queue
    /\ pqIdx' = 1
    /\ pqPc' = "loop"
    /\ UNCHANGED <<queue, nextId, hookVars>>
    /\ UNCHANGED <<pdVars, krVars, sfVars, calVars, flVars, rsVars>>

\* part_000 154-157: the loop passes over an item
PQSkip ==
    /\ pqPc = "loop"
    /\ pqIdx <= Len(pqQueue)
    /\ Skips(Find(pqQueue, ItemIds(pqQueue)[pqIdx]))
    /\ pqIdx' = pqIdx + 1
    /\ UNCHANGED <<queue, nextId, isBatchProcessing, pqPc, pqQueue, hookVars>>
    /\ UNCHANGED <<pdVars, krVars, sfVars, calVars, flVars, rsVars>>

\* part_000 154-166: the loop starts an item and calls processVideo for it
PQStart ==
    /\ pqPc = "loop"
    /\ pqIdx <= Len(pqQueue)
    /\ LET id == ItemIds(pqQueue)[pqIdx]
       IN  /\ ~Skips(Find(pqQueue, id))
           /\ queue' = MarkProcessing(queue, id)
           /\ StartCall(id)
    /\ pqPc' = "awaitVision"
    /\ UNCHANGED <<nextId, isBatchProcessing, pqQueue, pqIdx, engCv, unmounted, video, seen>>
    /\ UNCHANGED <<pdVars, krVars, sfVars, calVars, flVars, rsVars>>

\* part_000 166-193: processVideo's promise has settled
PQResume ==
    /\ pqPc = "awaitVision"
    /\ LET id == ItemIds(pqQueue)[pqIdx]
           currentItem == Find(pqQueue, id)
       IN  /\ pvPc[id] \in {"resolved", "rejected"}
           /\ IF pvPc[id] = "resolved"
                THEN /\ queue' = MarkCompleted(queue, id, result[id],
                                     calculateKeepRanges(result[id], currentItem.duration))
                     /\ pqPc' = "delay"
                     /\ UNCHANGED pqIdx
                ELSE /\ queue' = MarkError(queue, id)
                     /\ pqPc' = "loop"
                     /\ pqIdx' = pqIdx + 1
    /\ UNCHANGED <<nextId, isBatchProcessing, pqQueue, hookVars>>
    /\ UNCHANGED <<pdVars, krVars, sfVars, calVars, flVars, rsVars>>

\* part_000 182: the 500 ms timer fires
PQDelay ==
    /\ pqPc = "delay"
    /\ pqPc' = "loop"
    /\ pqIdx' = pqIdx + 1
    /\ UNCHANGED <<queue, nextId, isBatchProcessing, pqQueue, hookVars>>
    /\ UNCHANGED <<pdVars, krVars, sfVars, calVars, flVars, rsVars>>

\* part_000 196-197: the loop is over
PQFinish ==
    /\ pqPc = "loop"
    /\ pqIdx > Len(pqQueue)
    /\ isBatchProcessing' = FALSE
    /\ pqPc' = "idle"
    /\ UNCHANGED <<queue, nextId, pqQueue, pqIdx, hookVars>>
    /\ UNCHANGED <<pdVars, krVars, sfVars, calVars, flVars, rsVars>>

\* a caller other than processQueue calls processVideo
DirectCall ==
    /\ ~unmounted
    /\ \E c \in Calls :
         /\ pvPc[c] = "idle"
         /\ StartCall(c)
    /\ UNCHANGED <<engCv, unmounted, video, seen, pqVars>>
    /\ UNCHANGED <<pdVars, krVars, sfVars, calVars, flVars, rsVars>>

\* the script that defines cv finishes loading
CvLoads ==
    /\ ~engCv
    /\ engCv' = TRUE
    /\ UNCHANGED <<unmounted, pvPc, aborted, cancelled, failure, result,
                   abortControllerRef, rawDetectionsRef, lastProcessedTimeRef, video, seen>>
    /\ UNCHANGED <<pqVars, pdVars, krVars, sfVars, calVars, flVars, rsVars>>

\* useVisionEngine.ts 81-94: the effect cleanup
Unmount ==
    /\ ~unmounted
    /\ unmounted' = TRUE
    /\ video' = [video EXCEPT !.src = 0, !.st = "empty", !.t = -1]
    /\ aborted' = [k \in Calls |-> aborted[k] \/ k = abortControllerRef]
    /\ cancelled' = [k \in Calls |->
                       cancelled[k] \/ (k = abortControllerRef /\ ~aborted[k] /\ Running(k))]
    /\ UNCHANGED <<engCv, pvPc, failure, result, abortControllerRef, rawDetectionsRef,
                   lastProcessedTimeRef, seen>>
    /\ UNCHANGED <<pqVars, pdVars, krVars, sfVars, calVars, flVars, rsVars>>

\* useVisionEngine.ts 128, 132-148: referenceImage.onload fires
ImageLoaded ==
    /\ \E c \in Calls :
         /\ pvPc[c] = "awaitImage"
         /\ IF aborted[c]
              THEN /\ ReturnEmpty(c, "resolved", failure[c])
                   /\ UNCHANGED <<video, seen>>
              ELSE \E how \in {"ok", "calibration", "ctx"} :
                     IF how = "ok"
                       THEN /\ pvPc' = [pvPc EXCEPT ![c] = "awaitMeta"]
                            /\ \E cbs \in {video.callbacks, <<>>} :
                                 video' = [video EXCEPT !.src = c, !.st = "loading",
                                                        !.t = -1, !.onloadedmetadata = c,
                                                        !.callbacks = cbs]
                            /\ seen' = <<>>
                            /\ UNCHANGED <<result, failure>>
                       ELSE /\ Fail(c, how)
                            /\ UNCHANGED <<video, seen>>
    /\ UNCHANGED <<engCv, unmounted, aborted, cancelled, abortControllerRef,
                   rawDetectionsRef, lastProcessedTimeRef>>
    /\ UNCHANGED <<pqVars, pdVars, krVars, sfVars, calVars, flVars, rsVars>>

\* useVisionEngine.ts 129: referenceImage.onerror fires
ImageError ==
    /\ \E c \in Calls :
         /\ pvPc[c] = "awaitImage"
         /\ Fail(c, "image")
    /\ UNCHANGED <<engCv, unmounted, aborted, cancelled, abortControllerRef,
                   rawDetectionsRef, lastProcessedTimeRef, video, seen>>
    /\ UNCHANGED <<pqVars, pdVars, krVars, sfVars, calVars, flVars, rsVars>>

\* useVisionEngine.ts 147-158, 214-215: the element fires loadedmetadata; the
\* call that set the handler installs onended and onerror, requests the
\* first frame callback and starts playback
VideoMetadata ==
    /\ video.st = "loading"
    /\ LET c == video.onloadedmetadata
       IN  /\ c # 0
           /\ pvPc[c] = "awaitMeta"
           /\ pvPc' = [pvPc EXCEPT ![c] = "scanning"]
           /\ video' = [video EXCEPT !.st = "playing", !.onended = c, !.onerror = c,
                                     !.callbacks = Append(@, c)]
    /\ UNCHANGED <<engCv, unmounted, aborted, cancelled, failure, result,
                   abortControllerRef, rawDetectionsRef, lastProcessedTimeRef, seen>>
    /\ UNCHANGED <<pqVars, pdVars, krVars, sfVars, calVars, flVars, rsVars>>

\* the element will never fire loadedmetadata for this source
VideoStall ==
    /\ video.st = "loading"
    /\ video' = [video EXCEPT !.st = "stalled"]
    /\ UNCHANGED <<engCv, unmounted, pvPc, aborted, cancelled, failure, result,
                   abortControllerRef, rawDetectionsRef, lastProcessedTimeRef, seen>>
    /\ UNCHANGED <<pqVars, pdVars, krVars, sfVars, calVars, flVars, rsVars>>

\* useVisionEngine.ts 158: the element fires error, while loading or while
\* playing; the handler installed last, if any, rejects its call's promise
VideoError ==
    /\ video.st \in {"loading", "playing"}
    /\ video' = [video EXCEPT !.st = "error"]
    /\ LET c == video.onerror
       IN  IF c # 0 /\ pvPc[c] = "scanning"
             THEN Fail(c, "video")
             ELSE UNCHANGED <<pvPc, result, failure>>
    /\ UNCHANGED <<engCv, unmounted, aborted, cancelled, abortControllerRef,
                   rawDetectionsRef, lastProcessedTimeRef, seen>>
    /\ UNCHANGED <<pqVars, pdVars, krVars, sfVars, calVars, flVars, rsVars>>

\* useVisionEngine.ts 157, 218-230, 238: the element fires ended
VideoEnded ==
    /\ video.st = "playing"
    /\ video' = [video EXCEPT !.st = "ended"]
    /\ LET c == video.onended
       IN  IF c # 0 /\ pvPc[c] = "scanning"
             THEN /\ pvPc' = [pvPc EXCEPT ![c] = "resolved"]
                  /\ result' = [result EXCEPT ![c] =
                                  IF aborted[c] THEN <<>>
                                  ELSE processDetections(rawDetectionsRef)]
                  /\ UNCHANGED failure
             ELSE UNCHANGED <<pvPc, result, failure>>
    /\ UNCHANGED <<engCv, unmounted, aborted, cancelled, abortControllerRef,
                   rawDetectionsRef, lastProcessedTimeRef, seen>>
    /\ UNCHANGED <<pqVars, pdVars, krVars, sfVars, calVars, flVars, rsVars>>

\* useVisionEngine.ts 164-212: the element presents a frame and runs the
\* frame callbacks requested; `outcome` is what the scan of the frame does
VideoFrame ==
    /\ video.st = "playing"
    /\ \E dt \in 1..2, outcome \in {"hit", "miss", "throw"} :
         LET t == video.t + dt
             S == RunCallbacks(video.callbacks,
                               [st |-> "playing", last |-> lastProcessedTimeRef,
                                raw |-> rawDetectionsRef, cbs |-> <<>>, seen |-> seen],
                               t, outcome)
         IN  /\ t <= MaxMediaTime
             /\ video' = [video EXCEPT !.t = t, !.st = S.st, !.callbacks = S.cbs]
             /\ lastProcessedTimeRef' = S.last
             /\ rawDetectionsRef' = S.raw
             /\ seen' = S.seen
    /\ UNCHANGED <<engCv, unmounted, pvPc, aborted, cancelled, failure, result,
                   abortControllerRef>>
    /\ UNCHANGED <<pqVars, pdVars, krVars, sfVars, calVars, flVars, rsVars>>

\* the events of the image, the video element and the page; once the page is
\* gone the user can add, remove and run nothing, while what is in flight goes on
HookEnv ==
    \/ CvLoads
    \/ Unmount
    \/ ImageLoaded
    \/ ImageError
    \/ VideoMetadata
    \/ VideoStall
    \/ VideoError
    \/ VideoEnded
    \/ VideoFrame

\* the steps of a running processQueue
PQSteps ==
    \/ PQSkip
    \/ PQStart
    \/ PQResume
    \/ PQDelay
    \/ PQFinish

NextPQ ==
    \/ AddItem
    \/ RemoveItem
    \/ RunBatch
    \/ PQSteps
    \/ HookEnv

\* the application: the user fills the queue and runs batches
SpecPQ == InitEng /\ [][NextPQ]_vars

NextPV ==
    \/ DirectCall
    \/ HookEnv

\* the hook alone, processVideo called by any caller at any time
SpecPV == InitEng /\ [][NextPV]_vars

----------------------------------------------------------------------------
(* The frame loop of one processVideo call: useVisionEngine.ts 161-230,    *)
(* and the completion of its item: part_000 166-177.  The call is never     *)
(* cancelled, so the test of line 165 is always false.  The video is the    *)
(* synthetic one of the end-to-end example: 10 s long, its frames frameStep *)
(* ticks apart from media time 0 on, and scanFrame true exactly for the     *)
(* frames in [2.0, 3.0] and [7.0, 8.0].                                     *)

SyntheticVideo ==
    [duration |-> 200, positive |-> <<Range(40, 60), Range(140, 160)>>]

\* what scanFrame returns for the frame at media time t
Positive(t) ==
    \E k \in 1..Len(SyntheticVideo.positive) :
        /\ SyntheticVideo.positive[k].start <= t
        /\ t <= SyntheticVideo.positive[k].end

\* 20 and 10 frames per second
FrameSteps == {1, 2}

\* a plausible slip: the periodic update is never due
UpdateDue_never(counter) == FALSE
\* useVisionEngine.ts 198: if (uiUpdateCounter % 30 === 0)
UpdateDue(counter) == counter % 30 = 0

InitFL ==
    /\ flPc = "waiting"
    /\ frameStep \in FrameSteps
    /\ nextFrame = 0
    /\ flLast = -20
    /\ flRaw = <<>>
    /\ flSeen = <<>>
    /\ uiUpdateCounter = 0
    /\ progressUpdates = 0
    /\ flResult = <<>>
    /\ flKeep = <<>>
    /\ PDIdle
    /\ KRIdle
    /\ SFIdle
    /\ CalIdle
    /\ EngIdle
    /\ RSIdle

\* useVisionEngine.ts 164-212: the element presents the next frame and runs
\* processFrame; `thrown`: drawing, reading or scanning the frame throws (179-186)
FLFrame ==
    /\ flPc = "waiting"
    /\ nextFrame < SyntheticVideo.duration
    /\ \E thrown \in BOOLEAN :
         LET t == nextFrame
             accepted == Accepts(t, flLast)
         IN  /\ thrown => accepted
             /\ nextFrame' = t + frameStep
             /\ flLast' = IF accepted THEN t ELSE flLast
             /\ flSeen' = Append(flSeen, [t |-> t, accepted |-> accepted,
                                          thrown |-> thrown])
             /\ IF thrown
                  THEN /\ flPc' = "stopped"
                       /\ UNCHANGED <<flRaw, uiUpdateCounter, progressUpdates>>
                  ELSE /\ flRaw' = IF accepted /\ Positive(t) THEN Append(flRaw, t)
                                   ELSE flRaw
                       /\ uiUpdateCounter' = uiUpdateCounter + 1
                       /\ IF UpdateDue(uiUpdateCounter')
                            THEN /\ progressUpdates' = progressUpdates + 1
                                 /\ flPc' = "yielded"
                            ELSE /\ UNCHANGED progressUpdates
                                 /\ flPc' = "waiting"
    /\ UNCHANGED <<frameStep, flResult, flKeep>>
    /\ UNCHANGED <<pdVars, krVars, sfVars, calVars, engVars, rsVars>>

\* useVisionEngine.ts 203-208: the timer of the yield fires and the callback
\* is requested again; the element may have presented one frame meanwhile
FLResume ==
    /\ flPc = "yielded"
    /\ nextFrame < SyntheticVideo.duration
    /\ \E missed \in 0..1 : nextFrame' = nextFrame + missed * frameStep
    /\ flPc' = "waiting"
    /\ UNCHANGED <<frameStep, flLast, flRaw, flSeen, uiUpdateCounter, progressUpdates,
                   flResult, flKeep>>
    /\ UNCHANGED <<pdVars, krVars, sfVars, calVars, engVars, rsVars>>

\* useVisionEngine.ts 209-211: after the catch no callback is requested, and
\* the element plays the remaining frames unobserved
FLPlayOut ==
    /\ flPc = "stopped"
    /\ nextFrame < SyntheticVideo.duration
    /\ nextFrame' = SyntheticVideo.duration
    /\ UNCHANGED <<flPc, frameStep, flLast, flRaw, flSeen, uiUpdateCounter,
                   progressUpdates, flResult, flKeep>>
    /\ UNCHANGED <<pdVars, krVars, sfVars, calVars, engVars, rsVars>>

\* useVisionEngine.ts 157, 218-230: the element fires ended
FLEnded ==
    /\ flPc \in {"waiting", "yielded", "stopped"}
    /\ nextFrame >= SyntheticVideo.duration
    /\ flResult' = processDetections(flRaw)
    /\ flPc' = "resolved"
    /\ UNCHANGED <<frameStep, nextFrame, flLast, flRaw, flSeen, uiUpdateCounter,
                   progressUpdates, flKeep>>
    /\ UNCHANGED <<pdVars, krVars, sfVars, calVars, engVars, rsVars>>

\* part_000 166-177: processQueue completes the item
FLComplete ==
    /\ flPc = "resolved"
    /\ flKeep' = calculateKeepRanges(flResult, SyntheticVideo.duration)
    /\ flPc' = "completed"
    /\ UNCHANGED <<frameStep, nextFrame, flLast, flRaw, flSeen, uiUpdateCounter,
                   progressUpdates, flResult>>
    /\ UNCHANGED <<pdVars, krVars, sfVars, calVars, engVars, rsVars>>

NextFL ==
    \/ FLFrame
    \/ FLResume
    \/ FLPlayOut
    \/ FLEnded
    \/ FLComplete

SpecFL == InitFL /\ [][NextFL]_vars

----------------------------------------------------------------------------
(* The batch render script: src/render.js 1-92 and its later version       *)
(* src/unnamed/part_001 1-140.  A job of the manifest is modelled by what   *)
(* the script tests: whether it names a file, whether that file exists, and *)
(* whether its keep ranges are missing, empty or present.                   *)

Scripts == {"render.js", "part_001"}

\* file: "none" (no file and no fileName key), "absent" (named, not on disk),
\* "present"; ranges: "none" (no keepRanges and no ranges key), "empty", "some"
Jobs ==
    {[file |-> f, ranges |-> r] :
        f \in {"none", "absent", "present"}, r \in {"none", "empty", "some"}}

\* render.js 48-77: what processNext does with a job
RenderJs(data) ==
    IF data.file # "present" THEN "skip"            \* 48-52
    ELSE IF data.ranges = "none" THEN "throw"       \* 54-62: undefined.forEach
    ELSE "exec"

\* part_001 75-130: what processNext does with a job
Part001(data) ==
    IF data.file = "none" THEN "skip"               \* 75-79
    ELSE IF data.file = "absent" THEN "skip"        \* 90-99
    ELSE IF data.ranges # "some" THEN "skip"        \* 101-105
    ELSE "exec"

InitRS ==
    /\ script \in Scripts
    /\ rsQueue \in SeqsUpTo(Jobs, MaxJobs)
    \* part_001 53-56: the later script exits on an empty queue
    /\ script = "part_001" => rsQueue # <<>>
    /\ index = 1
    /\ rsPc = "call"
    /\ visited = <<>>
    /\ started = <<>>
    /\ fired = <<>>
    /\ PDIdle
    /\ KRIdle
    /\ SFIdle
    /\ CalIdle
    /\ EngIdle
    /\ FLIdle

\* render.js 35-89, part_001 63-138: one call processNext(index), up to its
\* return, its recursive call or the exception that leaves it
ProcessNext ==
    /\ rsPc = "call"
    /\ IF index > Len(rsQueue)
         THEN /\ rsPc' = "finished"
              /\ UNCHANGED <<index, visited, started>>
         ELSE LET data == rsQueue[index]
                  does == IF script = "render.js" THEN RenderJs(data)
                          ELSE Part001(data)
              IN  /\ visited' = Append(visited, index)
                  /\ started' = IF does = "exec" THEN Append(started, index)
                                ELSE started
                  /\ index' = IF does = "skip" THEN index + 1 ELSE index
                  /\ rsPc' = CASE does = "skip" -> "call"
                               [] does = "exec" -> "exec"
                               [] does = "throw" -> "crashed"
    /\ UNCHANGED <<script, rsQueue, fired>>
    /\ UNCHANGED <<pdVars, krVars, sfVars, calVars, engVars, flVars>>

\* render.js 81-88, part_001 130-137: the transcoder ends and its callback
\* fires, with an error or without
ExecCallback ==
    /\ rsPc = "exec"
    /\ \E error \in BOOLEAN :
         fired' = Append(fired, [job |-> index, error |-> error])
    /\ index' = index + 1
    /\ rsPc' = "call"
    /\ UNCHANGED <<script, rsQueue, visited, started>>
    /\ UNCHANGED <<pdVars, krVars, sfVars, calVars, engVars, flVars>>

NextRS ==
    \/ ProcessNext
    \/ ExecCallback

SpecRS == InitRS /\ [][NextRS]_vars

----------------------------------------------------------------------------
(* Claims about processDetections, checked under SpecPD *)

Sorted(rs) == \A i, j \in 1..Len(rs) : i < j => rs[i].start <= rs[j].start
Disjoint(rs) == \A i, j \in 1..Len(rs) : i < j => rs[i].end < rs[j].start
WellFormed(rs) == \A i \in 1..Len(rs) : rs[i].start <= rs[i].end
Covers(rs, t) == \E i \in 1..Len(rs) : rs[i].start <= t /\ t <= rs[i].end

\* C1: for every finite timestamp list (any order, duplicates allowed) the
\* ranges returned by processDetections are sorted by start, pairwise
\* non-overlapping, each with start <= end, and every input timestamp lies in
\* some returned range; the empty list gives the empty list.
C1_RangesSortedDisjointCovering ==
    pdPhase \in {"ranged", "refed"} =>
        /\ Sorted(ranges)
        /\ Disjoint(ranges)
        /\ WellFormed(ranges)
        /\ \A k \in 1..Len(timestamps) : Covers(ranges, timestamps[k])
        /\ (timestamps = <<>> => ranges = <<>>)

\* an unsorted input with a duplicate that yields two ranges
C1_Witness ==
    /\ pdPhase = "ranged"
    /\ Len(timestamps) = 3
    /\ timestamps[1] > timestamps[2]
    /\ timestamps[2] = timestamps[3]
    /\ Len(ranges) = 2

InSameRange(rs, a, b) ==
    \E i \in 1..Len(rs) : rs[i].start <= a /\ b <= rs[i].end

\* C2: two timestamps adjacent in sorted order are in the same returned range
\* exactly when their difference is at most 0.5 s (10 ticks); the timestamps
\* [1.0, 1.2, 1.6, 5.0] give exactly [{1.0,1.6},{5.0,5.0}].
C2_MergeIffWithinTolerance ==
    pdPhase \in {"ranged", "refed"} =>
        /\ LET s == SortStamps(timestamps) IN
           \A i \in 1..(Len(s) - 1) :
               InSameRange(ranges, s[i], s[i + 1]) <=> (s[i + 1] - s[i] <= 10)
        /\ (timestamps = ExampleTimestamps =>
               ranges = <<DetectionRange(20, 32), DetectionRange(100, 100)>>)

\* two timestamps exactly 0.5 s apart, merged into one range
C2_Witness ==
    /\ pdPhase = "ranged"
    /\ Len(timestamps) = 2
    /\ timestamps[2] - timestamps[1] = 10
    /\ ranges = <<DetectionRange(timestamps[1], timestamps[2])>>

\* C3 as stated: feeding the start and end values of the returned ranges back
\* into processDetections returns the same list of ranges, for every input.
C3_Original_IdempotentOnEndpoints ==
    pdPhase = "refed" => reRanges = ranges

\* C3 as amended: feeding the endpoints back returns the same list of ranges
\* exactly when every returned range spans at most 0.5 s (end - start <= 0.5);
\* a longer range comes back split at its two endpoints.
C3_IdempotentIffShortRanges ==
    pdPhase = "refed" =>
        ((reRanges = ranges) <=>
            (\A i \in 1..Len(ranges) : ranges[i].end - ranges[i].start <= 10))

\* two ranges, one of positive length, that come back unchanged
C3_Witness ==
    /\ pdPhase = "refed"
    /\ Len(ranges) = 2
    /\ ranges[1].start < ranges[1].end
    /\ reRanges = ranges

----------------------------------------------------------------------------
(* Claims about calculateKeepRanges, checked under SpecKR *)

\* the stretch [k, k+1] of the video lies in a keep range or in a detection
\* widened by 0.05 s (1 tick) on each side
CellCovered(k) ==
    \/ \E i \in 1..Len(keep) : keep[i].start <= k /\ k + 1 <= keep[i].end
    \/ \E i \in 1..Len(detections) :
           detections[i].start - 1 <= k /\ k + 1 <= detections[i].end + 1

\* C4: for every duration > 0 and every detection list, the keep ranges and
\* the detections widened by the 0.05 s margin cover [0, duration] except for
\* gaps shorter than 0.1 s + margin (3 ticks): no 3 consecutive uncovered ticks.
C4_CoverageUpToSlack ==
    (krPhase = "done" /\ duration > 0) =>
        \A k \in 0..(duration - 3) :
            CellCovered(k) \/ CellCovered(k + 1) \/ CellCovered(k + 2)

\* a dropped sliver of 0.1 s before a detection, and a keep range behind it
C4_Witness ==
    /\ krPhase = "done"
    /\ duration > 0
    /\ detections # <<>>
    /\ keep # <<>>
    /\ \E k \in 0..(duration - 2) : ~CellCovered(k) /\ ~CellCovered(k + 1)

KeepSorted == \A i, j \in 1..Len(keep) : i < j => keep[i].start <= keep[j].start
KeepDisjoint == \A i, j \in 1..Len(keep) : i < j => keep[i].end <= keep[j].start
StartsInVideo == \A i \in 1..Len(detections) : detections[i].start <= duration

\* C5 as stated: for every duration >= 0 and every detection list the keep
\* ranges are sorted by start, pairwise non-overlapping, and each has length
\* 0 or greater than 0.1 s (2 ticks).
C5_Original_SortedDisjointNoSliver ==
    krPhase = "done" =>
        /\ KeepSorted
        /\ KeepDisjoint
        /\ \A i \in 1..Len(keep) :
               keep[i].end - keep[i].start = 0 \/ keep[i].end - keep[i].start > 2

\* C5 as amended: for every duration >= 0 and every detection list whose
\* ranges start at or before duration, the keep ranges are sorted by start and
\* pairwise non-overlapping, and each is longer than 0.1 s, except the single
\* range {0, duration} returned for an empty detection list.
C5_SortedDisjointNoSliver ==
    (krPhase = "done" /\ StartsInVideo) =>
        /\ KeepSorted
        /\ KeepDisjoint
        /\ \A i \in 1..Len(keep) :
               \/ keep[i].end - keep[i].start > 2
               \/ detections = <<>> /\ keep = <<Range(0, duration)>>

\* two keep ranges around detections, and separately the short whole-video range
C5_Witness ==
    /\ krPhase = "done"
    /\ StartsInVideo
    /\ Len(detections) = 2
    /\ Len(keep) = 2
    /\ keep[1].end - keep[1].start = 3

\* C6 as stated: for every duration and every detection list, every keep range
\* has 0 <= start <= end <= duration.
C6_Original_KeepInsideVideo ==
    krPhase = "done" =>
        \A i \in 1..Len(keep) :
            0 <= keep[i].start /\ keep[i].start <= keep[i].end
                /\ keep[i].end <= duration

\* C6 as amended: for every duration >= 0 and every detection list whose
\* ranges start at or before duration, every keep range has
\* 0 <= start <= end <= duration.
C6_KeepInsideVideo ==
    (krPhase = "done" /\ StartsInVideo) =>
        \A i \in 1..Len(keep) :
            0 <= keep[i].start /\ keep[i].start <= keep[i].end
                /\ keep[i].end <= duration

\* a detection that starts at the end of the video, behind a keep range
C6_Witness ==
    /\ krPhase = "done"
    /\ keep # <<>>
    /\ \E i \in 1..Len(detections) : detections[i].start = duration

DetectionsInVideo ==
    \A i \in 1..Len(detections) :
        0 <= detections[i].start /\ detections[i].end <= duration

\* C7: when every detection lies within [0, duration], no keep range overlaps
\* the interior of a detection widened by 0.05 s on each side.
C7_KeepAvoidsWidenedDetections ==
    (krPhase = "done" /\ DetectionsInVideo) =>
        \A i \in 1..Len(keep) : \A j \in 1..Len(detections) :
            ~(Max(keep[i].start, detections[j].start - 1)
                < Min(keep[i].end, detections[j].end + 1))

\* keep ranges on both sides of a detection, each touching its widened ends
C7_Witness ==
    /\ krPhase = "done"
    /\ DetectionsInVideo
    /\ Len(keep) = 2
    /\ \E j \in 1..Len(detections) :
           /\ keep[1].end = detections[j].start - 1
           /\ keep[2].start = detections[j].end + 1

\* C8: duration 0 gives the empty list whatever the detections; no detections
\* and a duration other than 0 give exactly [{0, duration}]; duration 10 with
\* the single detection {3,4} gives exactly [{0,2.95},{4.05,10}].
C8_EdgeCasesAndExample ==
    krPhase = "done" =>
        /\ (duration = 0 => keep = <<>>)
        /\ ((detections = <<>> /\ duration # 0) =>
               keep = <<[start |-> 0, end |-> duration]>>)
        /\ ((duration = 200 /\ detections = <<DetectionRange(60, 80)>>) =>
               keep = <<[start |-> 0, end |-> 59], [start |-> 81, end |-> 200]>>)

\* the specification's example has been computed
C8_Witness ==
    /\ krPhase = "done"
    /\ duration = 200
    /\ detections = <<DetectionRange(60, 80)>>
    /\ Len(keep) = 2

----------------------------------------------------------------------------
(* Claims about scanFrame, checked under SpecSF *)

\* the pixels of the clamped region of interest
RoiPixels ==
    {p \in (0..(srcFrame.cols - 1)) \X (0..(srcFrame.rows - 1)) :
        /\ roi.x <= p[1] /\ p[1] < roi.x + roi.w
        /\ roi.y <= p[2] /\ p[2] < roi.y + roi.h}

PixelIn(p, r) ==
    /\ r.x <= p[1] /\ p[1] < r.x + r.w
    /\ r.y <= p[2] /\ p[2] < r.y + r.h

DarkInRoi == Cardinality({p \in RoiPixels : PixelIn(p, srcFrame.dark)})
WhiteInRoi == Cardinality({p \in RoiPixels : PixelIn(p, srcFrame.white)})

\* C9: scanFrame (the pixel library loaded and answering) returns true exactly
\* when, inside the clamped region of interest, strictly more than 30% of the
\* pixels are within the background bounds and strictly more than 0.5% are
\* within the text bounds; a ratio equal to either threshold gives false.
C9_TrueIffBothRatiosExceed ==
    (pc = "done" /\ cvLoaded /\ failAt = 0) =>
        LET n == Cardinality(RoiPixels) IN
        /\ (returned = "true") <=>
               (10 * DarkInRoi > 3 * n /\ 200 * WhiteInRoi > n)
        /\ (10 * DarkInRoi = 3 * n \/ 200 * WhiteInRoi = n) => returned = "false"
        /\ returned \in {"true", "false"}

\* a frame whose background ratio is exactly 30% with enough text: false
C9_Witness ==
    /\ pc = "done"
    /\ cvLoaded
    /\ failAt = 0
    /\ Cardinality(RoiPixels) > 0
    /\ 10 * DarkInRoi = 3 * Cardinality(RoiPixels)
    /\ 200 * WhiteInRoi > Cardinality(RoiPixels)
    /\ returned = "false"

\* C10: scanFrame never raises; when the pixel library is unavailable, when
\* the region of interest clamps to zero or negative width or height, or when
\* a pixel-library call inside it fails, the caller gets false.
C10_FailureGivesFalse ==
    /\ returned # "raised"
    /\ pc = "done" =>
           ((~cvLoaded \/ roi.w <= 0 \/ roi.h <= 0 \/ failAt # 0)
               => returned = "false")

\* a call failed after the dark count had passed its threshold on a frame
\* that qualifies, and the caller got false
C10_Witness ==
    /\ pc = "done"
    /\ failAt = 15
    /\ 10 * DarkInRoi > 3 * Cardinality(RoiPixels)
    /\ 200 * WhiteInRoi > Cardinality(RoiPixels)
    /\ returned = "false"

----------------------------------------------------------------------------
(* Claims about calibrateReference, checked under SpecCal *)

RECURSIVE LargestArea(_)
\* the area of the largest bright region of a list of regions, 0 if none
LargestArea(rs) ==
    IF rs = <<>> THEN 0 ELSE Max(Head(rs).area, LargestArea(Tail(rs)))

\* calibrateReference has finished with the library loaded and no
\* allocation or pixel-library call throwing
CalRan == calPc = "done" /\ calCv /\ calFailAt = "none"

\* a fraction lies in [0, 1]
InUnit(f) == f[2] > 0 /\ 0 <= f[1] /\ f[1] <= f[2]

\* the sum of two fractions lies in [0, 1]
SumInUnit(f, g) ==
    /\ f[2] > 0 /\ g[2] > 0
    /\ 0 <= f[1] * g[2] + g[1] * f[2]
    /\ f[1] * g[2] + g[1] * f[2] <= f[2] * g[2]

\* C11 as stated: calibrateReference fails when the area of the largest
\* bright region is below 0.1% of the pixel count and returns a profile
\* when it is at least 0.1%.
C11_Original_FailsBelowThreshold ==
    CalRan =>
        /\ LargestArea(image.regions) * 1000 < image.cols * image.rows
               => calOutcome = "raised"
        /\ LargestArea(image.regions) * 1000 >= image.cols * image.rows
               => calOutcome = "profile"

\* C11 amended: with the library loaded and no library call throwing,
\* calibrateReference fails exactly when the area of the largest bright
\* region is at most 0.1% of the pixel count (an all-dark image included)
\* and returns a profile exactly when it is more than 0.1%.
C11_FailsAtOrBelowThreshold ==
    CalRan =>
        /\ calOutcome = "raised"
               <=> LargestArea(image.regions) * 1000 <= image.cols * image.rows
        /\ calOutcome = "profile"
               <=> LargestArea(image.regions) * 1000 > image.cols * image.rows

\* a run on an image whose largest region is exactly 0.1% of the pixels
C11_Witness ==
    /\ CalRan
    /\ image.regions # <<>>
    /\ LargestArea(image.regions) * 1000 = image.cols * image.rows
    /\ calOutcome = "raised"

\* C12: calibrateReference either throws or returns a complete profile:
\* the returned box has w > 0 and h > 0 and x, y, x + w, y + h within
\* [0, 1]; the all-zero placeholder is never returned.
C12_ThrowsOrCompleteProfile ==
    /\ calPc = "done" => calOutcome \in {"raised", "profile"}
    /\ calOutcome = "profile" =>
        LET box == spatial.normalizedBox
        IN  /\ spatial # Placeholder
            /\ box.w[1] > 0 /\ box.w[2] > 0
            /\ box.h[1] > 0 /\ box.h[2] > 0
            /\ InUnit(box.x) /\ InUnit(box.y)
            /\ SumInUnit(box.x, box.w)
            /\ SumInUnit(box.y, box.h)

\* a profile returned for a region that touches the right and bottom edge
C12_Witness ==
    /\ calOutcome = "profile"
    /\ bestRect.x > 0
    /\ bestRect.x + bestRect.w = image.cols
    /\ bestRect.y + bestRect.h = image.rows

----------------------------------------------------------------------------
(* Claims about processQueue and processVideo, checked under SpecPQ and      *)
(* SpecPV                                                                    *)

\* the largest element of a non-empty set of integers
MaxOf(S) == CHOOSE x \in S : \A y \in S : y <= x

\* the frames of the log that call c's processFrame handled
SeenBy(log, c) == {k \in 1..Len(log) : log[k].by = c}

\* the status of the item with this id moves from `from` to `to` in this step
Moves(id, from, to) ==
    /\ \E i \in 1..Len(queue) : queue[i].id = id /\ queue[i].status = from
    /\ \E j \in 1..Len(queue') : queue'[j].id = id /\ queue'[j].status = to

\* C13: across any sequence of processQueue runs the status of an item
\* changes only from PENDING to PROCESSING and from PROCESSING to COMPLETED
\* or ERROR; once COMPLETED or ERROR it never changes while in the queue.
C13_StatusOnlyAdvances ==
    [][\A i \in 1..Len(queue) : \A j \in 1..Len(queue') :
          queue'[j].id = queue[i].id =>
              \/ queue'[j].status = queue[i].status
              \/ queue[i].status = "PENDING" /\ queue'[j].status = "PROCESSING"
              \/ /\ queue[i].status = "PROCESSING"
                 /\ queue'[j].status \in {"COMPLETED", "ERROR"}]_vars

\* a later run has passed over an item an earlier run completed, while
\* another item is being processed
C13_Witness ==
    /\ pqPc = "awaitVision"
    /\ pqIdx > 1
    /\ pqQueue[1].status = "COMPLETED"
    /\ \E i \in 1..Len(queue) :
         queue[i].id = pqQueue[1].id /\ queue[i].status = "COMPLETED"

\* C14: when the scan of an item fails (cv not loaded, reference image
\* unreadable, calibration finds no target, canvas context unavailable,
\* video error during playback), processQueue leaves the item in ERROR and
\* never marks it COMPLETED.
C14_FailedScanGivesError ==
    \A i \in 1..Len(queue) :
        failure[queue[i].id] \in {"cv", "image", "calibration", "ctx", "video"}
            => /\ queue[i].status # "COMPLETED"
               /\ pqPc = "idle" => queue[i].status = "ERROR"

\* C15: processVideo never rejects; after a reference image load failure, a
\* calibration throw, a missing canvas context or a video error its promise
\* is resolved with the empty list, whatever timestamps were collected.
C15_NeverRejectsEmptyOnFailure ==
    \A c \in Calls :
        /\ pvPc[c] # "rejected"
        /\ failure[c] # "none" => pvPc[c] = "resolved" /\ result[c] = <<>>

\* a video error after timestamps were collected: the call resolved with []
C15_Witness ==
    \E c \in Calls :
        /\ failure[c] = "video"
        /\ abortControllerRef = c
        /\ rawDetectionsRef # <<>>
        /\ pvPc[c] = "resolved"
        /\ result[c] = <<>>

\* a step by which a running batch gets on: a step of processQueue or an
\* event of the reference image or of the video element
BatchStep ==
    \/ PQSteps
    \/ ImageLoaded
    \/ ImageError
    \/ VideoMetadata
    \/ VideoError
    \/ VideoEnded
    \/ VideoFrame

\* C16: processQueue finishes every batch: while a batch runs on a mounted
\* page it is never stuck, a step that gets it on is always possible, also
\* when the video never becomes ready.
C16_BatchNeverStuck ==
    (isBatchProcessing /\ ~unmounted) => ENABLED BatchStep

\* the status of every item of the queue with a smaller index is final
EarlierFinal(q, i) == \A j \in 1..(i - 1) : q[j].status \in {"COMPLETED", "ERROR"}

\* C17: at every moment at most one item is PROCESSING; an item is started
\* only when every item before it in the queue is COMPLETED or ERROR.
C17_OneAtATimeInOrder ==
    /\ [](Cardinality({i \in 1..Len(queue) : queue[i].status = "PROCESSING"}) <= 1)
    /\ [][\A i \in 1..Len(queue) :
            Moves(queue[i].id, "PENDING", "PROCESSING") => EarlierFinal(queue, i)]_vars

\* the second item is being processed after the first was completed
C17_Witness ==
    /\ Len(queue) >= 2
    /\ queue[1].status = "COMPLETED"
    /\ queue[2].status = "PROCESSING"
    /\ pvPc[queue[2].id] = "scanning"

\* C18: when processVideo is called for B while the scan of A is running,
\* A's signal is raised within that call's first synchronous part; from then
\* on no frame is handled and no timestamp appended for A, A resolves with
\* no ranges, and no call ever rejects.
C18_NewCallCancelsRunning ==
    /\ [](\A a \in Calls :
            /\ pvPc[a] # "rejected"
            /\ (cancelled[a] /\ pvPc[a] = "resolved") => result[a] = <<>>)
    /\ [][\A a \in Calls :
            /\ \A b \in Calls \ {a} :
                 (pvPc[b] = "idle" /\ pvPc'[b] # "idle" /\ Running(a)) => aborted'[a]
            /\ cancelled[a] =>
                 /\ Cardinality(SeenBy(seen', a)) <= Cardinality(SeenBy(seen, a))
                 /\ (rawDetectionsRef' # rawDetectionsRef /\ rawDetectionsRef' # <<>>)
                        => seen'[Len(seen')].by # a]_vars

\* A was cancelled by B's call in the middle of its scan, A's next frame
\* callback has paused the element, and B is waiting for its image
C18_Witness ==
    \E a \in Calls : \E b \in Calls \ {a} :
        /\ ~unmounted
        /\ cancelled[a]
        /\ pvPc[a] = "scanning"
        /\ SeenBy(seen, a) # {}
        /\ video.st = "paused"
        /\ pvPc[b] = "awaitImage"

\* C19: a scan cancelled before it finishes never causes its item to be
\* marked COMPLETED or ERROR and attaches no detections or keep ranges: the
\* item stays PROCESSING, as it was when the signal was raised.
C19_CancelledScanLeavesItem ==
    \A i \in 1..Len(queue) :
        cancelled[queue[i].id] =>
            /\ queue[i].status = "PROCESSING"
            /\ queue[i].detections = <<>>
            /\ queue[i].resultRanges = <<>>

\* C20: within one scan a decoded frame is accepted exactly when its media
\* time is at least 0.1 s past the last accepted frame, the first decoded
\* frame always; so accepted frames are at least 0.1 s apart and their
\* times strictly increase.
C20_AcceptedIffIntervalPassed ==
    \A k \in 1..Len(seen) :
        LET before == {j \in 1..(k - 1) : seen[j].accepted}
        IN  /\ seen[k].accepted <=>
                  (before = {} \/ seen[k].t - seen[MaxOf(before)].t >= SAMPLE_INTERVAL)
            /\ (seen[k].accepted /\ before # {}) =>
                  /\ seen[k].t > seen[MaxOf(before)].t
                  /\ seen[k].t - seen[MaxOf(before)].t >= SAMPLE_INTERVAL

\* a frame accepted, one 0.05 s later skipped, one 0.1 s later accepted
C20_Witness ==
    /\ Len(seen) >= 3
    /\ seen[1].accepted
    /\ ~seen[2].accepted
    /\ seen[3].accepted
    /\ seen[3].t - seen[1].t = SAMPLE_INTERVAL

----------------------------------------------------------------------------
(* Further claims about processDetections and calculateKeepRanges, checked   *)
(* under SpecPD and SpecKR                                                   *)

\* the values of a list
Values(s) == {s[k] : k \in 1..Len(s)}

\* C28: in every non-empty output of processDetections each range's start
\* and end are values of the input list, and consecutive ranges are more
\* than 0.5 s apart (next.start - previous.end > 0.5).
C28_EndpointsFromInputFarApart ==
    pdPhase \in {"ranged", "refed"} =>
        /\ \A k \in 1..Len(ranges) :
             ranges[k].start \in Values(timestamps) /\ ranges[k].end \in Values(timestamps)
        /\ \A k \in 1..(Len(ranges) - 1) :
             ranges[k + 1].start - ranges[k].end > TOLERANCE

\* an unsorted input that gives two ranges
C28_Witness ==
    /\ pdPhase = "ranged"
    /\ Len(ranges) = 2
    /\ Len(timestamps) = 3
    /\ timestamps[1] > timestamps[2]

\* the permutations of 1..n
Perms(n) == {p \in [1..n -> 1..n] : \A i, j \in 1..n : p[i] = p[j] => i = j}

\* the list s taken in the order p
Permuted(s, p) == [k \in 1..Len(s) |-> s[p[k]]]

\* every detection is a range inside the video
WithinVideo ==
    \A k \in 1..Len(detections) :
        /\ 0 <= detections[k].start
        /\ detections[k].start <= detections[k].end
        /\ detections[k].end <= duration

\* C29: for detections within [0, duration] every permutation of the
\* detection list gives the same keep ranges.
C29_OrderIndependent ==
    (krPhase = "done" /\ WithinVideo) =>
        \A p \in Perms(Len(detections)) :
            calculateKeepRanges(Permuted(detections, p), duration) = keep

\* two detections with the same start and different ends, the longer first,
\* and a keep range behind them
C29_Witness ==
    /\ krPhase = "done"
    /\ WithinVideo
    /\ Len(detections) = 2
    /\ detections[1].start = detections[2].start
    /\ detections[1].end > detections[2].end
    /\ keep # <<>>

RECURSIVE CoverLoop(_, _, _, _)
\* sorted is ascending by start; cur is the range covering the group being
\* built: a detection that starts inside it joins the group
CoverLoop(sorted, i, cur, acc) ==
    IF i > Len(sorted) THEN Append(acc, cur)
    ELSE IF sorted[i].start <= cur.end
         THEN CoverLoop(sorted, i + 1,
                        DetectionRange(cur.start, Max(cur.end, sorted[i].end)), acc)
         ELSE CoverLoop(sorted, i + 1, sorted[i], Append(acc, cur))

\* every group of overlapping detections replaced by its covering range
Covering(dets) ==
    IF dets = <<>> THEN <<>>
    ELSE LET sorted == SortByStart(dets) IN CoverLoop(sorted, 2, sorted[1], <<>>)

\* C30: for detections within [0, duration] the keep ranges equal the keep
\* ranges of the list in which every group of overlapping detections is
\* replaced by its covering range.
C30_OverlapsActAsCover ==
    (krPhase = "done" /\ WithinVideo) =>
        calculateKeepRanges(Covering(detections), duration) = keep

\* a detection nested in an earlier one, with room behind the nested one
C30_Witness ==
    /\ krPhase = "done"
    /\ WithinVideo
    /\ Len(detections) = 2
    /\ detections[1].start < detections[2].start
    /\ detections[2].end < detections[1].end
    /\ duration - detections[2].end > 3

-----------------------------------------------------------------------------
(* Further claims about scanFrame, checked under SpecSF                     *)

\* the pixel buffers the calls before call k have allocated
AllocatedBefore(k) == {Allocates[j] : j \in 1..(k - 1)} \ {""}

\* C23: every pixel buffer one scanFrame call allocates (the view of the
\* region of interest, the HSV image, the two masks, the four bound matrices)
\* is released when the call returns: after a normal result, after the early
\* return for an empty region, after a pixel-library call threw part-way
\* through the allocations, and when the pixel library is not loaded.  While
\* the call runs, the buffers that are live are exactly those the calls made
\* so far have allocated.
C23_BuffersReleasedOnEveryPath ==
    /\ pc \in {"return", "done"} => live = {}
    /\ pc = "call" => live = AllocatedBefore(step)
    /\ pc = "catch" => live = AllocatedBefore(failAt)
    /\ pc \in {"entry", "clamp"} => live = {}

\* the allocation of highW (line 83) threw, with six buffers allocated
\* before it, and the call has returned
C23_Witness ==
    /\ pc = "done"
    /\ failAt = 12
    /\ Cardinality(AllocatedBefore(failAt)) = 6
    /\ live = {}
    /\ returned = "false"

\* a rectangle that lies inside the frame and is not empty
InsideFrame(r, frame) ==
    /\ r.x >= 0
    /\ r.y >= 0
    /\ r.w > 0
    /\ r.h > 0
    /\ r.x + r.w <= frame.cols
    /\ r.y + r.h <= frame.rows

\* C26: whenever scanFrame hands a region of interest to the pixel library
\* (the try block has gone past the empty-region test of line 56), the
\* rectangle lies entirely inside the frame, x >= 0, y >= 0, x + w <= frame
\* width, y + h <= frame height, with w > 0 and h > 0, for every normalized
\* box, those that leave the unit square included, and every frame size; the
\* rectangle handed over is the clamped one.
C26_RoiInsideFrame ==
    /\ step >= 1 => InsideFrame(roi, srcFrame)
    /\ step >= 2 => handed = roi
    /\ step = 0 => handed = NoRect

\* a box as wide as the frame: the padding pushes it out on both sides, the
\* clamps bring it back to the full width, and the view has been taken
C26_Witness ==
    /\ pc = "done"
    /\ profile.x = 0
    /\ profile.w = NormDen
    /\ step >= 2
    /\ handed.x = 0
    /\ handed.w = srcFrame.cols
    /\ handed.h < srcFrame.rows

-----------------------------------------------------------------------------
(* A further claim about calibrateReference, checked under SpecCal          *)

\* C24: every pixel buffer one calibrateReference call obtains (the source
\* image, the grayscale and binary images, the contour vector, the hierarchy,
\* and each contour handle fetched with contours.get(i) while searching) has
\* been released when the call exits, whether it returns a profile or throws.
C24_BuffersReleasedOnExit ==
    calPc = "done" => calLive = {} /\ calCnts = {}

-----------------------------------------------------------------------------
(* Claims about the frame loop, checked under SpecFL                        *)

\* the media times of the frames processFrame accepted and scanned
Sampled == {flSeen[k].t : k \in {j \in 1..Len(flSeen) :
                                   flSeen[j].accepted /\ ~flSeen[j].thrown}}

\* the video was sampled every 0.1 s, from its start to its end
SampledEveryInterval ==
    Sampled = {t \in 0..(SyntheticVideo.duration - 1) : t % SAMPLE_INTERVAL = 0}

\* C22: end to end, for a 10-second video whose frames are positive exactly
\* in [2.0, 3.0] and [7.0, 8.0], sampled every 0.1 s, the item completes with
\* exactly the two detection ranges {2.0, 3.0} and {7.0, 8.0} and the keep
\* ranges [{0, 1.95}, {3.05, 6.95}, {8.05, 10}] (in ticks of 0.05 s).
C22_EndToEndExample ==
    /\ flPc \in {"resolved", "completed"} /\ SampledEveryInterval
         => flResult = <<DetectionRange(40, 60), DetectionRange(140, 160)>>
    /\ flPc = "completed" /\ SampledEveryInterval
         => flKeep = <<Range(0, 39), Range(61, 139), Range(161, 200)>>

\* the item of a video with 20 frames per second has completed: every second
\* frame was skipped by the throttle, and the loop yielded six times without
\* losing a sample
C22_Witness ==
    /\ flPc = "completed"
    /\ SampledEveryInterval
    /\ frameStep = 1
    /\ Len(flSeen) = SyntheticVideo.duration
    /\ progressUpdates = 6
    /\ Len(flKeep) = 3

\* the frames processFrame handled to its end, accepted or skipped
Handled == Cardinality({k \in 1..Len(flSeen) : ~flSeen[k].thrown})

\* C25 as stated: progress is recomputed and control is yielded once per 30
\* accepted samples; frames the throttle skips do not count.
C25_Original_OncePerThirtyAccepted ==
    progressUpdates = Cardinality(Sampled) \div 30

\* C25: during a scan, progress is recomputed and control is yielded once per
\* 30 frames that processFrame handles without failing, whether the throttle
\* accepts or skips them: the number of updates is the number of handled
\* frames divided by 30, and the loop is suspended in a yield only when that
\* number is a positive multiple of 30.
C25_OncePerThirtyFrames ==
    /\ uiUpdateCounter = Handled
    /\ progressUpdates = Handled \div 30
    /\ flPc = "yielded" => Handled > 0 /\ Handled % 30 = 0

\* sixty frames handled, thirty of them skipped by the throttle, and the
\* second yield is in progress
C25_Witness ==
    /\ flPc = "yielded"
    /\ Handled = 60
    /\ Cardinality(Sampled) = 30
    /\ progressUpdates = 2

-----------------------------------------------------------------------------
(* A claim about the batch render script, checked under SpecRS              *)

\* C27: the batch render script visits every job of the loaded manifest
\* exactly once, in manifest order; it starts the transcoder for a job only
\* after the callback of the transcoder started before has fired; and it
\* always reaches the end of the queue, whatever happens to a job (missing
\* file name, file not found, missing or empty keep ranges, transcoder
\* error): it never stops before the end, and when it stops every job has
\* been visited.
C27_EveryJobOnceInOrder ==
    /\ \A k \in 1..Len(visited) : visited[k] = k
    /\ Len(started) - Len(fired) = (IF rsPc = "exec" THEN 1 ELSE 0)
    /\ rsPc # "crashed"
    /\ rsPc = "finished" => Len(visited) = Len(rsQueue)

-----------------------------------------------------------------------------
(* A further claim about the application, checked under SpecPQ              *)

\* the stream of the video of item id has ended
StreamEnded(id) == video.src = id /\ video.st = "ended"

\* C21: for each video, processDetections and calculateKeepRanges run only
\* after the end of its stream and over the complete timestamp set: a call
\* resolves, and with it publishes its detection ranges, only in the step in
\* which its stream ends; the item is completed, and with it its keep ranges
\* computed, only once its stream has ended; and no frame is handed to the
\* processFrame of a call that has settled, so that nothing is appended to
\* the video's detection set after its ranges have been computed.
C21_RangesOnlyAfterStreamEnd ==
    [][\A id \in Calls :
          /\ pvPc[id] = "scanning" /\ pvPc'[id] = "resolved"
               => video'.src = id /\ video'.st = "ended"
          /\ Moves(id, "PROCESSING", "COMPLETED") => StreamEnded(id)
          /\ \A k \in (Len(seen) + 1)..Len(seen') :
                 seen'[k].by = id /\ seen'[k].accepted => pvPc[id] = "scanning"]_vars

-----------------------------------------------------------------------------
(* A claim about the state the processVideo calls share, checked under      *)
(* SpecPV                                                                   *)

\* the media times of the frames of the log that call c accepted
AcceptedBy(log, c) == {log[k].t : k \in {j \in SeenBy(log, c) : log[j].accepted}}

\* the frames this step has added to the log
NewFrames == IF Len(seen') > Len(seen) THEN (Len(seen) + 1)..Len(seen') ELSE {}

\* C31: the ranges a processVideo call returns are built only from timestamps
\* accepted during that call, although all calls share rawDetectionsRef,
\* lastProcessedTimeRef and the video element.  In every step: only the call
\* started last, with its signal not raised, accepts a frame; the shared
\* buffer changes only by being emptied when a call starts or by the media
\* time of a frame that call accepts in this step being appended, so that it
\* holds only timestamps the call started last accepted from its own video;
\* a call that resolves with ranges is the call started last, and its ranges
\* are processDetections of that buffer, their endpoints accepted by it; and
\* the first frame handed to a call is accepted whatever time an earlier call
\* accepted last, a frame callback of an earlier call that fires on the later
\* video included.
C31_OnlyOwnTimestamps ==
    [][/\ \A k \in NewFrames :
            /\ seen'[k].accepted =>
                 seen'[k].by = abortControllerRef /\ ~aborted[seen'[k].by]
            /\ SeenBy(seen, seen'[k].by) = {} => seen'[k].accepted
       /\ rawDetectionsRef' # rawDetectionsRef =>
            \/ rawDetectionsRef' = <<>> /\ abortControllerRef' # abortControllerRef
            \/ /\ rawDetectionsRef' = Append(rawDetectionsRef, video'.t)
               /\ abortControllerRef' = abortControllerRef
               /\ \E k \in NewFrames :
                    /\ seen'[k].by = abortControllerRef
                    /\ seen'[k].accepted
                    /\ seen'[k].t = video'.t
       /\ Values(rawDetectionsRef') \subseteq AcceptedBy(seen', abortControllerRef')
       /\ \A c \in Calls :
            (pvPc[c] # "resolved" /\ pvPc'[c] = "resolved" /\ result'[c] # <<>>) =>
                /\ c = abortControllerRef
                /\ video.src = c
                /\ result'[c] = processDetections(rawDetectionsRef)
                /\ Values(Endpoints(result'[c])) \subseteq AcceptedBy(seen, c)]_vars

\* the video of a ended and a resolved with ranges; then b was called, and on
\* the first frame of b's video the frame callback a had left behind fired
\* and paused the element, while b accepted the frame and recorded it
C31_Witness ==
    \E a \in Calls : \E b \in Calls \ {a} :
        /\ pvPc[a] = "resolved"
        /\ result[a] # <<>>
        /\ aborted[a]
        /\ ~cancelled[a]
        /\ abortControllerRef = b
        /\ ~aborted[b]
        /\ pvPc[b] = "scanning"
        /\ video.src = b
        /\ video.st = "paused"
        /\ Len(seen) = 1
        /\ seen[1].by = b
        /\ seen[1].accepted
        /\ rawDetectionsRef = <<seen[1].t>>

=============================================================================
